---- MODULE Spec2Model ----
(***************************************************************************)
(* Orientation-inference pipeline of the PDF rotator.                      *)
(*                                                                         *)
(*   Spec          the client-side batch orchestrator                      *)
(*                 (frontend/src/App.tsx, handleDetectOrientation,         *)
(*                 handleAbortOcr, handleResumeOcr, the auto OCR effect)   *)
(*   SpecEndpoint  the server-side request boundary                        *)
(*                 (upload middleware, createOcrHandler,                   *)
(*                 promiseWithTimeout, errorHandler)                       *)
(*                                                                         *)
(* Likelihoods and scales are held as integer percentages (0.6 -> 60).     *)
(* Indices into targetPages are 0-based as in the source; the TLA+         *)
(* sequence holding the pages is 1-based, so page = targetPages[index+1].  *)
(***************************************************************************)
EXTENDS Integers, Sequences, FiniteSets, TLC

\* ------------------------------------------------------------------------
\* Bounds
\* ------------------------------------------------------------------------
NumPages == 3
\* Calls of handleDetectOrientation while the first document is in the
\* viewer; one more is followed once a second document has been loaded.
MaxRuns == 2
VetoPages == 5
\* Longest literal part of an imageBase64 string the endpoint is sent.
MaxLen == 2
\* Most words one recognition of a sweep candidate returns.
MaxWords == 1
\* Largest number of quarter turns, in either direction, in an angle handed
\* to the rotation library.
MaxTurns == 5
\* Documents loaded one after the other in one session of the application.
MaxDocs == 2

\* ------------------------------------------------------------------------
\* Program constants
\* ------------------------------------------------------------------------
OCR_AUTO_SCALE == 60
OCR_RETRY_SCALE == 45
CONTINUOUS_ROTATION_DEFAULT == 60
FULL_SCALE == 100
MIN_LIKELIHOOD == 60
MAX_FILE_SIZE == 52428800
\* Word confidences and accuracies are counted in thousandths: 0.92 is 920,
\* a confidence of 60 on the percent scale is 60000.
Milli == 1000
MIN_WORD_CONFIDENCE == 60
\* BOTTOM_STRIP_RATIO is one part in BOTTOM_STRIP_PARTS.
BOTTOM_STRIP_PARTS == 8

Rotations == {0, 90, 180, 270}
NullRotation == -1
Undefined == -2
InvalidRotation == -3

\* Page numbers any loaded document of the model can have; the pages of the
\* loaded document are 1..numPages.
Pages == 1..(IF NumPages > VetoPages THEN NumPages ELSE VetoPages)
RunIds == 1..(MaxRuns + 1)

VARIABLES
  \* ---- client (App component) ----
  health,                      \* "unknown" | "enabled"
  numPages,                    \* state.numPages of the loaded document
  viewer,                      \* state.status and state.pdfDoc (0: none, k: the k-th document loaded)
  autoOcrDone,                 \* autoOcrDocRef.current === state.pdfDoc
  stub,                        \* the deterministic detector behind the endpoint
  rotationMap,                 \* state.rotationMap (live)
  selectedPages,               \* selectedPages state
  continuousRotationEnabled,
  continuousRotationThreshold,
  capturedThreshold,           \* the threshold the memoized handleDetectOrientation closes over
  ocrLoading,
  ocrProgress,
  ocrError,
  ocrCompleteMessage,
  ocrResumeInfo,
  ocrRunRef,
  ocrAbortRef,                 \* run whose AbortController is current, 0 = null
  runs,                        \* closure state of each handleDetectOrientation call
  nextRun,
  inflight,                    \* detection requests issued and not yet settled
  lib,                         \* one call into lib/rotation.ts
  \* ---- server (endpoint) ----
  srv

clientVars == <<health, numPages, viewer, autoOcrDone, stub, rotationMap, selectedPages,
                continuousRotationEnabled, continuousRotationThreshold, capturedThreshold,
                ocrLoading, ocrProgress, ocrError, ocrCompleteMessage,
                ocrResumeInfo, ocrRunRef, ocrAbortRef, runs, nextRun, inflight,
                lib>>
vars == <<clientVars, srv>>

\* ------------------------------------------------------------------------
\* RotationArithmetic (frontend/src/lib/rotation.ts)
\* ------------------------------------------------------------------------
\* JavaScript remainder: the result takes the sign of the dividend.
JsRem(a, b) == IF a >= 0 THEN a % b ELSE -((-a) % b)

IsMultipleOf90(value) == JsRem(value, 90) = 0

normalizeRotationRemainderOnly(value) ==
  IF ~IsMultipleOf90(value) THEN InvalidRotation
  ELSE JsRem(value, 360)

normalizeRotation(value) ==
  IF ~IsMultipleOf90(value) THEN InvalidRotation
  ELSE JsRem(JsRem(value, 360) + 360, 360)

CurrentRotationOfEmptyMap(map, pageNumber) == 0

\* absent entries read as 0
CurrentRotation(map, pageNumber) ==
  IF map[pageNumber] = Undefined THEN 0 ELSE map[pageNumber]

applyRotationChangeUnwrapped(map, pageNumber, delta) ==
  [map EXCEPT ![pageNumber] = CurrentRotation(map, pageNumber) + delta]

applyRotationChange(map, pageNumber, delta) ==
  [map EXCEPT ![pageNumber] = normalizeRotation(CurrentRotation(map, pageNumber) + delta)]

\* useViewerState().rotatePage: the setter behind the live rotation map
rotatePage(map, pageNumber, delta) == applyRotationChange(map, pageNumber, delta)

EmptyRotationMap == [p \in Pages |-> Undefined]

\* A value of type number handed to the library: an integer, an integer
\* plus one half (kind "fraction"), NaN, or an infinity.
Integer(n) == [kind |-> "integer", value |-> n]

\* TRUE when assertMultipleOf90 returns, FALSE when it throws: the value is
\* finite and its remainder by 90 is 0
assertMultipleOf90(number) ==
  /\ number.kind \in {"integer", "fraction"}
  /\ number.kind = "integer" /\ IsMultipleOf90(number.value)

\* normalizeRotation on any value of type number
normalizeRotationOf(number) ==
  IF assertMultipleOf90(number) THEN normalizeRotation(number.value)
  ELSE InvalidRotation

\* One call into the library and the calls that follow it.
LibIdle == [op |-> "none", pc |-> "idle"]

Numbers ==
  { Integer(n) : n \in (-90 * MaxTurns)..(90 * MaxTurns) }
  \cup { [kind |-> "fraction", value |-> n] : n \in {-90, -1, 0, 2, 89, 90} }
  \cup { [kind |-> "NaN", value |-> 0],
          [kind |-> "Infinity", value |-> 1], [kind |-> "Infinity", value |-> -1] }

\* The calls the library is entered with: normalizeRotation of a number,
\* applyRotationChange on a map with entries for the first two pages at
\* most, for one of these pages and two multiples of 90, clampPageNumber of
\* two numbers, and the viewer state as it is at first (numPages 0) or after
\* loadDocument.
LibCalls ==
  { [op |-> "normalizeRotation", pc |-> "called", value |-> number,
     result |-> Undefined, again |-> Undefined] : number \in Numbers }
  \cup
  { [op |-> "applyRotationChange", pc |-> "called",
     map |-> [p \in Pages |-> IF p = 1 THEN m[1] ELSE IF p = 2 THEN m[2] ELSE Undefined],
     pageNumber |-> pageNumber, deltaA |-> 90 * a, deltaB |-> 90 * b,
     first |-> EmptyRotationMap, second |-> EmptyRotationMap,
     once |-> EmptyRotationMap] :
      m \in [{1, 2} -> Rotations \cup {Undefined}], pageNumber \in {1, 2},
      a \in (-MaxTurns)..MaxTurns, b \in (-MaxTurns)..MaxTurns }
  \cup
  { [op |-> "clampPageNumber", pc |-> "called", page |-> page,
     totalPages |-> totalPages, result |-> Undefined] :
      page \in Numbers,
      totalPages \in { Integer(n) : n \in (-1)..NumPages }
                      \cup { [kind |-> "fraction", value |-> 0],
                              [kind |-> "NaN", value |-> 0],
                              [kind |-> "Infinity", value |-> 1] } }
  \cup
  { [op |-> "viewer", pc |-> "ready", numPages |-> n, currentPage |-> 1,
     call |-> "loadDocument", page |-> Integer(1), from |-> 1] : n \in 0..NumPages }

\* normalizeRotation(value)
Normalize ==
  /\ lib.op = "normalizeRotation" /\ lib.pc = "called"
  /\ lib' = [lib EXCEPT !.pc = "returned", !.result = normalizeRotationOf(lib.value)]
  /\ UNCHANGED <<health, numPages, viewer, autoOcrDone, stub, rotationMap, selectedPages,
                 continuousRotationEnabled, continuousRotationThreshold, capturedThreshold,
                 ocrLoading, ocrProgress, ocrError, ocrCompleteMessage,
                 ocrResumeInfo, ocrRunRef, ocrAbortRef, runs, nextRun,
                 inflight, srv>>

\* normalizeRotation(normalizeRotation(value)), when the first call returned
NormalizeAgain ==
  /\ lib.op = "normalizeRotation" /\ lib.pc = "returned"
  /\ lib.result # InvalidRotation
  /\ lib' = [lib EXCEPT !.pc = "done",
                        !.again = normalizeRotationOf(Integer(lib.result))]
  /\ UNCHANGED <<health, numPages, viewer, autoOcrDone, stub, rotationMap, selectedPages,
                 continuousRotationEnabled, continuousRotationThreshold, capturedThreshold,
                 ocrLoading, ocrProgress, ocrError, ocrCompleteMessage,
                 ocrResumeInfo, ocrRunRef, ocrAbortRef, runs, nextRun,
                 inflight, srv>>

\* applyRotationChange(map, pageNumber, deltaA)
ApplyFirst ==
  /\ lib.op = "applyRotationChange" /\ lib.pc = "called"
  /\ lib' = [lib EXCEPT !.pc = "first",
               !.first = applyRotationChange(lib.map, lib.pageNumber, lib.deltaA)]
  /\ UNCHANGED <<health, numPages, viewer, autoOcrDone, stub, rotationMap, selectedPages,
                 continuousRotationEnabled, continuousRotationThreshold, capturedThreshold,
                 ocrLoading, ocrProgress, ocrError, ocrCompleteMessage,
                 ocrResumeInfo, ocrRunRef, ocrAbortRef, runs, nextRun,
                 inflight, srv>>

\* applyRotationChange(first, pageNumber, deltaB)
ApplySecond ==
  /\ lib.op = "applyRotationChange" /\ lib.pc = "first"
  /\ lib' = [lib EXCEPT !.pc = "second",
               !.second = applyRotationChange(lib.first, lib.pageNumber, lib.deltaB)]
  /\ UNCHANGED <<health, numPages, viewer, autoOcrDone, stub, rotationMap, selectedPages,
                 continuousRotationEnabled, continuousRotationThreshold, capturedThreshold,
                 ocrLoading, ocrProgress, ocrError, ocrCompleteMessage,
                 ocrResumeInfo, ocrRunRef, ocrAbortRef, runs, nextRun,
                 inflight, srv>>

\* applyRotationChange(map, pageNumber, deltaA + deltaB)
ApplyOnce ==
  /\ lib.op = "applyRotationChange" /\ lib.pc = "second"
  /\ lib' = [lib EXCEPT !.pc = "done",
               !.once = applyRotationChange(lib.map, lib.pageNumber,
                                            lib.deltaA + lib.deltaB)]
  /\ UNCHANGED <<health, numPages, viewer, autoOcrDone, stub, rotationMap, selectedPages,
                 continuousRotationEnabled, continuousRotationThreshold, capturedThreshold,
                 ocrLoading, ocrProgress, ocrError, ocrCompleteMessage,
                 ocrResumeInfo, ocrRunRef, ocrAbortRef, runs, nextRun,
                 inflight, srv>>

\* What clampPageNumber gives when it throws.
InvalidPageCount == -4
InvalidPageNumber == -5

clampPageNumberUnbounded(page, totalPages) ==
  IF totalPages.kind # "integer" \/ totalPages.value < 1 THEN InvalidPageCount
  ELSE IF page.kind \notin {"integer", "fraction"} THEN InvalidPageNumber
  ELSE IF page.value < 1 THEN 1 ELSE page.value

\* totalPages is an integer wherever the viewer calls the function; a
\* totalPages of 0.5 is finite and below 1.  Math.trunc of n + 0.5 is n for
\* n >= 0 and n + 1 for n < 0.
clampPageNumber(page, totalPages) ==
  IF \/ totalPages.kind \notin {"integer", "fraction"}
     \/ totalPages.value < 1
    THEN InvalidPageCount
  ELSE IF page.kind \notin {"integer", "fraction"} THEN InvalidPageNumber
  ELSE LET pageInt == IF page.kind = "fraction" /\ page.value < 0
                        THEN page.value + 1 ELSE page.value
       IN IF pageInt < 1 THEN 1
          ELSE IF pageInt > totalPages.value THEN totalPages.value
          ELSE pageInt

\* clampPageNumber(page, totalPages)
ClampPage ==
  /\ lib.op = "clampPageNumber" /\ lib.pc = "called"
  /\ lib' = [lib EXCEPT !.pc = "done",
                        !.result = clampPageNumber(lib.page, lib.totalPages)]
  /\ UNCHANGED <<health, numPages, viewer, autoOcrDone, stub, rotationMap, selectedPages,
                 continuousRotationEnabled, continuousRotationThreshold, capturedThreshold,
                 ocrLoading, ocrProgress, ocrError, ocrCompleteMessage,
                 ocrResumeInfo, ocrRunRef, ocrAbortRef, runs, nextRun,
                 inflight, srv>>

\* One of the page controls of useViewerState: the updater returns prev when
\* no document is loaded, else it sets currentPage to the clamped page; a
\* throw of clampPageNumber leaves the state as it was.
MovePage(call, page) ==
  LET clamped == clampPageNumber(page, Integer(lib.numPages))
  IN [lib EXCEPT
        !.call = call, !.page = page, !.from = lib.currentPage,
        !.pc = IF lib.numPages >= 1 /\ clamped < 1 THEN "thrown" ELSE @,
        !.currentPage = IF lib.numPages >= 1 /\ clamped >= 1
                          THEN clamped ELSE @]

setPage ==
  /\ lib.op = "viewer" /\ lib.pc = "ready"
  /\ \E page \in { Integer(n) : n \in (-1)..(NumPages + 2) }
                  \cup { [kind |-> "fraction", value |-> n] : n \in {-1, 0, 2, NumPages} }
                  \cup { [kind |-> "NaN", value |-> 0], [kind |-> "Infinity", value |-> -1] } :
       lib' = MovePage("setPage", page)
  /\ UNCHANGED <<health, numPages, viewer, autoOcrDone, stub, rotationMap, selectedPages,
                 continuousRotationEnabled, continuousRotationThreshold, capturedThreshold,
                 ocrLoading, ocrProgress, ocrError, ocrCompleteMessage,
                 ocrResumeInfo, ocrRunRef, ocrAbortRef, runs, nextRun,
                 inflight, srv>>

nextPage ==
  /\ lib.op = "viewer" /\ lib.pc = "ready"
  /\ lib' = MovePage("nextPage", Integer(lib.currentPage + 1))
  /\ UNCHANGED <<health, numPages, viewer, autoOcrDone, stub, rotationMap, selectedPages,
                 continuousRotationEnabled, continuousRotationThreshold, capturedThreshold,
                 ocrLoading, ocrProgress, ocrError, ocrCompleteMessage,
                 ocrResumeInfo, ocrRunRef, ocrAbortRef, runs, nextRun,
                 inflight, srv>>

prevPage ==
  /\ lib.op = "viewer" /\ lib.pc = "ready"
  /\ lib' = MovePage("prevPage", Integer(lib.currentPage - 1))
  /\ UNCHANGED <<health, numPages, viewer, autoOcrDone, stub, rotationMap, selectedPages,
                 continuousRotationEnabled, continuousRotationThreshold, capturedThreshold,
                 ocrLoading, ocrProgress, ocrError, ocrCompleteMessage,
                 ocrResumeInfo, ocrRunRef, ocrAbortRef, runs, nextRun,
                 inflight, srv>>

\* ------------------------------------------------------------------------
\* Selection (frontend/src/lib/selection.ts)
\* ------------------------------------------------------------------------
RECURSIVE AscendingSeq(_)
AscendingSeq(S) ==
  IF S = {} THEN <<>>
  ELSE LET m == CHOOSE x \in S : \A y \in S : x <= y
       IN <<m>> \o AscendingSeq(S \ {m})

SeqToSet(s) == {s[i] : i \in 1..Len(s)}

normalizeSelectedPagesUnsorted(pages, pageCount) ==
  IF pageCount < 1 THEN <<>>
  ELSE LET kept == SelectSeq(pages, LAMBDA p : p >= 1 /\ p <= pageCount)
       IN [i \in 1..Len(kept) |-> kept[Len(kept) + 1 - i]]

normalizeSelectedPages(pages, pageCount) ==
  IF pageCount < 1 THEN <<>>
  ELSE AscendingSeq({p \in SeqToSet(pages) : p >= 1 /\ p <= pageCount})

\* Array.from({ length: state.numPages }, (_, index) => index + 1)
AllPages == [i \in 1..numPages |-> i]

\* ------------------------------------------------------------------------
\* Detection requests as seen by the orchestrator
\* (frontend/src/lib/ocr.ts, requestOrientation / detectOrientationForPage)
\* ------------------------------------------------------------------------
\* A settled call: a suggestion (status 200) or a thrown Error whose message
\* carries "(HTTP <status>)"; status 0 is the network error of a rejected
\* fetch, which carries no HTTP status.
OkResp(rot, lik) == [ok |-> TRUE, rotation |-> rot, likelihood |-> lik, status |-> 200]
ErrResp(st) == [ok |-> FALSE, rotation |-> NullRotation, likelihood |-> 0, status |-> st]
NetworkError == ErrResp(0)

HIGH_LIKELIHOOD == 95

\* What the deterministic endpoint answers for a page: at the base scale
\* (no result, 90 above and below the default threshold, 180, a failure
\* that is not retried) and at the reduced retry scale.
StubOutcomes ==
  { [base |-> b, retry |-> ErrResp(504)] :
      b \in { OkResp(NullRotation, 0), OkResp(90, HIGH_LIKELIHOOD), OkResp(90, 50),
              OkResp(180, HIGH_LIKELIHOOD), ErrResp(503) } }
  \cup { [base |-> ErrResp(504), retry |-> t] :
           t \in { OkResp(90, HIGH_LIKELIHOOD), ErrResp(504) } }

MessageIncludesHttp504(resp) == ~resp.ok /\ resp.status = 504

\* A fetcher that does not hand the abort signal to fetch.
FetchOutcomeWithoutSignal(aborted, req) ==
  IF req.scale = OCR_RETRY_SCALE THEN stub[req.page].retry
  ELSE stub[req.page].base

\* fetch(input, { signal }) rejects when the signal is aborted before the
\* response has been read; requestOrientation turns the rejection into the
\* network error.  Otherwise the endpoint's answer for (page, scale) arrives.
FetchOutcome(aborted, req) ==
  IF aborted THEN NetworkError
  ELSE IF req.scale = OCR_RETRY_SCALE THEN stub[req.page].retry
  ELSE stub[req.page].base

\* ------------------------------------------------------------------------
\* Per-page body of the loop in handleDetectOrientation
\* ------------------------------------------------------------------------
NoAnchor == [page |-> 0, rotation |-> NullRotation]
EmptyHighConfidence == [p \in Pages |-> Undefined]

\* The mutable locals of one run that the loop body reads and writes, plus
\* the live map it writes through rotatePage.
LoopState(working, live, lastHigh, hc, errors) ==
  [working |-> working, live |-> live, lastHigh |-> lastHigh,
   highConfidenceRotations |-> hc, errors |-> errors]

applyRotationToPage(ls, targetPage, targetRotation) ==
  LET currentRotation == CurrentRotation(ls.working, targetPage)
      delta == targetRotation - currentRotation
  IN IF delta = 0 THEN ls
     ELSE [ls EXCEPT !.live = rotatePage(ls.live, targetPage, delta),
                     !.working = applyRotationChange(ls.working, targetPage, delta)]

\* for (checkPage = startPage; checkPage <= endPage; ...) conflict scan
HasConflict(hc, startPage, endPage, rotation) ==
  \E checkPage \in startPage..endPage :
     hc[checkPage] # Undefined /\ hc[checkPage] # rotation

\* The fill loop with its upper bound off by one (fillPage < endPage).
RECURSIVE FillPagesShort(_, _, _, _, _)
FillPagesShort(ls, fillPage, endPage, targetPagesSet, rotation) ==
  IF fillPage >= endPage THEN ls
  ELSE FillPagesShort(IF fillPage \in targetPagesSet
                        THEN applyRotationToPage(ls, fillPage, rotation)
                        ELSE ls,
                      fillPage + 1, endPage, targetPagesSet, rotation)

\* for (fillPage = startPage; fillPage <= endPage; ...) fill loop
RECURSIVE FillPages(_, _, _, _, _)
FillPages(ls, fillPage, endPage, targetPagesSet, rotation) ==
  IF fillPage > endPage THEN ls
  ELSE FillPages(IF fillPage \in targetPagesSet
                   THEN applyRotationToPage(ls, fillPage, rotation)
                   ELSE ls,
                 fillPage + 1, endPage, targetPagesSet, rotation)

\* The anchor test without the comparison of the rotations.
AnchorPresent(lastHigh, rotation) == lastHigh # NoAnchor

\* lastHigh && lastHigh.rotation === suggestion.rotation
AnchorMatches(lastHigh, rotation) ==
  lastHigh # NoAnchor /\ lastHigh.rotation = rotation

\* A bookkeeping that moves the anchor only when there was none or the
\* rotations agree.
ContinuousRotationStepAnchorOnMatch(ls, targetPagesSet, pageNumber, rotation) ==
  LET hc1 == [ls.highConfidenceRotations EXCEPT ![pageNumber] = rotation]
      ls1 == [ls EXCEPT !.highConfidenceRotations = hc1]
      startPage == ls.lastHigh.page + 1
      endPage == pageNumber - 1
      ls2 == IF AnchorMatches(ls.lastHigh, rotation)
                /\ startPage <= endPage
                /\ ~HasConflict(hc1, startPage, endPage, rotation)
               THEN FillPages(ls1, startPage, endPage, targetPagesSet, rotation)
               ELSE ls1
  IN IF ls.lastHigh = NoAnchor \/ AnchorMatches(ls.lastHigh, rotation)
       THEN [ls2 EXCEPT !.lastHigh = [page |-> pageNumber, rotation |-> rotation]]
       ELSE ls2

\* Lines 1138-1166: continuous-rotation bookkeeping after a page was applied.
ContinuousRotationStep(ls, targetPagesSet, pageNumber, rotation) ==
  LET hc1 == [ls.highConfidenceRotations EXCEPT ![pageNumber] = rotation]
      ls1 == [ls EXCEPT !.highConfidenceRotations = hc1]
      startPage == ls.lastHigh.page + 1
      endPage == pageNumber - 1
      ls2 == IF AnchorMatches(ls.lastHigh, rotation)
                /\ startPage <= endPage
                /\ ~HasConflict(hc1, startPage, endPage, rotation)
               THEN FillPages(ls1, startPage, endPage, targetPagesSet, rotation)
               ELSE ls1
  IN [ls2 EXCEPT !.lastHigh = [page |-> pageNumber, rotation |-> rotation]]

\* A loop body whose fill does not look at the run's targets.
ProcessPageFillingAll(ls, targetPagesSet, continuousRotation, threshold, pageNumber, resp) ==
  IF ~resp.ok THEN [ls EXCEPT !.errors = Append(ls.errors, pageNumber)]
  ELSE IF resp.rotation = NullRotation THEN ls
  ELSE LET ls1 == applyRotationToPage(ls, pageNumber, resp.rotation)
       IN IF continuousRotation /\ resp.likelihood >= threshold
            THEN ContinuousRotationStep(ls1, Pages, pageNumber, resp.rotation)
            ELSE ls1

\* Lines 1130-1170: what one settled page does to the run.
ProcessPage(ls, targetPagesSet, continuousRotation, threshold, pageNumber, resp) ==
  IF ~resp.ok THEN [ls EXCEPT !.errors = Append(ls.errors, pageNumber)]
  ELSE IF resp.rotation = NullRotation THEN ls
  ELSE LET ls1 == applyRotationToPage(ls, pageNumber, resp.rotation)
       IN IF continuousRotation /\ resp.likelihood >= threshold
            THEN ContinuousRotationStep(ls1, targetPagesSet, pageNumber, resp.rotation)
            ELSE ls1

\* The answer a page ends with when nothing is aborted: the base attempt,
\* replaced by the retry when the base attempt failed with HTTP 504.
BaseScale(forceAll) == IF forceAll THEN OCR_AUTO_SCALE ELSE FULL_SCALE

\* A catch that retries after every failure of the first attempt.
ShouldRetryOnAnyFailure(baseScale, resp) ==
  baseScale > OCR_RETRY_SCALE /\ ~resp.ok

ShouldRetry(baseScale, resp) ==
  baseScale > OCR_RETRY_SCALE /\ MessageIncludesHttp504(resp)

FinalResponse(pageNumber, forceAll) ==
  IF ShouldRetry(BaseScale(forceAll), stub[pageNumber].base)
    THEN stub[pageNumber].retry
    ELSE stub[pageNumber].base

\* A whole run over targetPages[fromIndex+1 ..] that is never cancelled.
RECURSIVE UninterruptedRun(_, _, _, _, _, _)
UninterruptedRun(ls, targetPages, index, continuousRotation, threshold, forceAll) ==
  IF index >= Len(targetPages) THEN ls
  ELSE UninterruptedRun(
         ProcessPage(ls, SeqToSet(targetPages), continuousRotation, threshold,
                     targetPages[index + 1],
                     FinalResponse(targetPages[index + 1], forceAll)),
         targetPages, index + 1, continuousRotation, threshold, forceAll)

\* ------------------------------------------------------------------------
\* Component state of App and the closure state of a run
\* ------------------------------------------------------------------------
\* ocrRunRef.current / ocrResumeInfo: null, or the BatchRunState record.
\* highConfidenceRotations is held by reference: hcRef names the run whose
\* object it is (a shallow copy { ...ocrRunRef.current } shares it).
\* owner is history only: the run that stored the record.
NullRunState ==
  [targetPages |-> <<>>, forceAll |-> FALSE, currentIndex |-> -1,
   continuousRotation |-> FALSE, lastHigh |-> NoAnchor, threshold |-> 0,
   hcRef |-> 0, owner |-> 0]

NullProgress == [current |-> 0, total |-> 0, page |-> 0]
NoError == [kind |-> "none", count |-> 0, page |-> 0]
NoCompleteMessage == [total |-> 0, failures |-> 0]

\* One call of handleDetectOrientation.  pc: "unused" (not called yet),
\* "await" (suspended in await detectWithScale), "done" (returned).
\* outcome names the path the call left by: "completed" (loop exhausted),
\* "cancelled" (outer catch, aborted), "failed" (outer catch, not aborted).
\* requested, startMap (live map when the fresh run of the chain began),
\* entryMap (live map when this call began), origin and abortedAt are history.
UnusedRun ==
  [pc |-> "unused", outcome |-> "none", aborted |-> FALSE,
   targetPages |-> <<>>, startIndex |-> 0, index |-> 0, forceAll |-> FALSE,
   continuousRotation |-> FALSE, threshold |-> 0,
   workingRotationMap |-> EmptyRotationMap, lastHigh |-> NoAnchor,
   highConfidenceRotations |-> EmptyHighConfidence, errors |-> <<>>,
   requested |-> <<>>, startMap |-> EmptyRotationMap,
   entryMap |-> EmptyRotationMap, origin |-> 0,
   abortedAt |-> -1, pdfDoc |-> 0]

Globals ==
  [ocrRunRef |-> ocrRunRef, ocrResumeInfo |-> ocrResumeInfo,
   ocrLoading |-> ocrLoading, ocrProgress |-> ocrProgress,
   ocrError |-> ocrError, ocrCompleteMessage |-> ocrCompleteMessage,
   rotationMap |-> rotationMap]

Request(r, run, index, scale) ==
  [run |-> r, index |-> index, page |-> run.targetPages[index + 1], scale |-> scale]

\* The loop issuing the call for the next target as well, without awaiting
\* the one it has just made.
IssueRequestsAhead(r, run, index, scale) ==
  { Request(r, run, index, scale) }
  \cup (IF index + 1 < Len(run.targetPages)
          THEN { Request(r, run, index + 1, scale) } ELSE {})

\* detectWithScale(scale): the one call the loop makes and awaits.
IssueRequests(r, run, index, scale) == { Request(r, run, index, scale) }

\* finally { setOcrLoading(false); setOcrProgress(null); ocrRunRef.current = null }
Finally(g) ==
  [g EXCEPT !.ocrLoading = FALSE, !.ocrProgress = NullProgress,
            !.ocrRunRef = NullRunState]

OuterCatchAbortedPastCursor(g, total) ==
  IF g.ocrRunRef # NullRunState /\ total > 1
    THEN [g EXCEPT !.ocrResumeInfo =
                     [g.ocrRunRef EXCEPT !.currentIndex = @ + 1]]
    ELSE g

\* catch (error) of the outer try, for the abort error thrown at line 1102
OuterCatchAborted(g, total) ==
  IF g.ocrRunRef # NullRunState /\ total > 1
    THEN [g EXCEPT !.ocrResumeInfo = g.ocrRunRef]
    ELSE g

\* Lines 1173-1179: the loop ran out of targets.
ReportCompletion(g, run) ==
  LET total == Len(run.targetPages)
      g1 == IF Len(run.errors) > 0
              THEN [g EXCEPT !.ocrError = [kind |-> "failures",
                                            count |-> Len(run.errors),
                                            page |-> run.errors[1]]]
              ELSE g
  IN IF total > 1
       THEN [g1 EXCEPT !.ocrCompleteMessage =
                         [total |-> total, failures |-> Len(run.errors)]]
       ELSE g1

\* Top of one loop iteration (lines 1096-1121) up to the awaited call, or
\* the exit of the loop when index has run past the targets.
EnterIteration(r, g, run, index) ==
  LET total == Len(run.targetPages) IN
  IF index < total THEN
    LET g1 == IF g.ocrRunRef # NullRunState
                THEN [g EXCEPT !.ocrRunRef.currentIndex = index]
                ELSE g
    IN IF run.aborted
         THEN [g |-> Finally(OuterCatchAborted(g1, total)),
               run |-> [run EXCEPT !.pc = "done", !.outcome = "cancelled",
                                   !.index = index],
               issue |-> {}]
         ELSE LET scale == BaseScale(run.forceAll) IN
              [g |-> [g1 EXCEPT !.ocrProgress =
                        [current |-> index + 1, total |-> total,
                         page |-> run.targetPages[index + 1]]],
               run |-> [run EXCEPT !.pc = "await", !.index = index,
                          !.requested = Append(@, Request(r, run, index, scale))],
               issue |-> IssueRequests(r, run, index, scale)]
  ELSE [g |-> Finally(ReportCompletion(g, run)),
        run |-> [run EXCEPT !.pc = "done", !.outcome = "completed",
                            !.index = index],
        issue |-> {}]

Install(res, r, runsBase, inflightBase) ==
  /\ ocrRunRef' = res.g.ocrRunRef
  /\ ocrResumeInfo' = res.g.ocrResumeInfo
  /\ ocrLoading' = res.g.ocrLoading
  /\ ocrProgress' = res.g.ocrProgress
  /\ ocrError' = res.g.ocrError
  /\ ocrCompleteMessage' = res.g.ocrCompleteMessage
  /\ rotationMap' = res.g.rotationMap
  /\ runs' = [runsBase EXCEPT ![r] = res.run]
  /\ inflight' = inflightBase \cup res.issue

\* ocrAbortRef.current?.abort()
AbortCurrent(rs) ==
  IF ocrAbortRef # 0
    THEN [rs EXCEPT ![ocrAbortRef].aborted = TRUE,
                    ![ocrAbortRef].abortedAt =
                       IF rs[ocrAbortRef].pc = "await" /\ ~rs[ocrAbortRef].aborted
                         THEN rs[ocrAbortRef].index ELSE @]
    ELSE rs

\* handleDetectOrientation(options), lines 1033-1121: from the call to the
\* first await.  resumeInfo = NullRunState stands for options.resume absent.
BeginRun(forceAll, resumeInfo) ==
  LET r == nextRun
      resuming == resumeInfo # NullRunState
      continuousRotation ==
        IF resuming THEN resumeInfo.continuousRotation ELSE continuousRotationEnabled
      threshold ==
        IF resuming THEN resumeInfo.threshold ELSE capturedThreshold
      normalizedSelection ==
        IF forceAll THEN <<>> ELSE normalizeSelectedPages(selectedPages, numPages)
      targetPages ==
        IF resuming THEN resumeInfo.targetPages
        ELSE IF Len(normalizedSelection) > 0 THEN normalizedSelection
        ELSE AllPages
      total == Len(targetPages)
      startIndex == IF resuming THEN resumeInfo.currentIndex ELSE 0
      runForceAll == IF resuming THEN resumeInfo.forceAll ELSE forceAll
      lastHigh == IF resuming THEN resumeInfo.lastHigh ELSE NoAnchor
      runs1 == AbortCurrent(runs)
      highConfidenceRotations ==
        IF resuming THEN runs1[resumeInfo.hcRef].highConfidenceRotations
        ELSE EmptyHighConfidence
      Min(a, b) == IF a < b THEN a ELSE b
      run0 == [UnusedRun EXCEPT
                 !.targetPages = targetPages, !.startIndex = startIndex,
                 !.index = startIndex, !.forceAll = runForceAll,
                 !.continuousRotation = continuousRotation,
                 !.threshold = threshold,
                 !.workingRotationMap = rotationMap,
                 !.lastHigh = lastHigh,
                 !.highConfidenceRotations = highConfidenceRotations,
                 !.startMap = IF resuming THEN runs1[resumeInfo.owner].startMap
                              ELSE rotationMap,
                 !.entryMap = rotationMap,
                 !.origin = IF resuming THEN resumeInfo.owner ELSE 0,
                 !.pdfDoc = viewer.pdfDoc]
      g0 == [Globals EXCEPT
               !.ocrLoading = TRUE, !.ocrError = NoError,
               !.ocrCompleteMessage = NoCompleteMessage,
               !.ocrResumeInfo = NullRunState,
               !.ocrProgress =
                  IF total > 0
                    THEN [current |-> Min(startIndex, total), total |-> total,
                          page |-> targetPages[Min(startIndex, total - 1) + 1]]
                    ELSE NullProgress,
               !.ocrRunRef =
                  [targetPages |-> targetPages, forceAll |-> runForceAll,
                   currentIndex |-> startIndex,
                   continuousRotation |-> continuousRotation,
                   lastHigh |-> lastHigh, threshold |-> threshold,
                   hcRef |-> r, owner |-> r]]
  IN /\ nextRun <= MaxRuns + (IF viewer.pdfDoc > 1 THEN 1 ELSE 0)
     /\ nextRun' = nextRun + 1
     /\ ocrAbortRef' = r
     /\ Install(EnterIteration(r, g0, run0, startIndex), r, runs1, inflight)

\* state.pdfDoc is set and state.status is "ready".
DocReady == viewer.pdfDoc # 0 /\ viewer.status = "ready"

\* React runs a pending effect before it handles the next user event.
NoPendingEffect == (health = "enabled" /\ DocReady) => autoOcrDone

\* The effect without the guard on autoOcrDocRef and without recording the
\* document it has started a run for.
AutoOcrEffectForgettingDocument ==
  /\ DocReady
  /\ health = "enabled"
  /\ autoOcrDone' = autoOcrDone
  /\ BeginRun(TRUE, NullRunState)
  /\ UNCHANGED <<health, numPages, viewer, stub, selectedPages, continuousRotationEnabled,
                 continuousRotationThreshold, capturedThreshold, srv, lib>>

\* The auto OCR effect (lines 1210-1223), document loaded and ready.
AutoOcrEffect ==
  /\ DocReady
  /\ health = "enabled"
  /\ ~autoOcrDone
  /\ autoOcrDone' = TRUE
  /\ BeginRun(TRUE, NullRunState)
  /\ UNCHANGED <<health, numPages, viewer, stub, selectedPages, continuousRotationEnabled,
                 continuousRotationThreshold, capturedThreshold, srv, lib>>

\* The "向き推定" button: enabled while no run is loading.
DetectClick ==
  /\ NoPendingEffect
  /\ DocReady
  /\ ~ocrLoading
  /\ BeginRun(FALSE, NullRunState)
  /\ UNCHANGED <<health, numPages, viewer, autoOcrDone, stub, selectedPages,
                 continuousRotationEnabled, continuousRotationThreshold, capturedThreshold, srv, lib>>

\* handleResumeOcr behind the "処理再開" button.
handleResumeOcr ==
  /\ NoPendingEffect
  /\ DocReady
  /\ ~ocrLoading
  /\ ocrResumeInfo # NullRunState
  /\ BeginRun(FALSE, ocrResumeInfo)
  /\ UNCHANGED <<health, numPages, viewer, autoOcrDone, stub, selectedPages,
                 continuousRotationEnabled, continuousRotationThreshold, capturedThreshold, srv, lib>>

\* handleAbortOcr behind the "処理中止" button.
handleAbortOcr ==
  /\ NoPendingEffect
  /\ ocrLoading /\ ocrProgress # NullProgress /\ ocrProgress.total > 1
  /\ runs' = AbortCurrent(runs)
  /\ ocrResumeInfo' = IF ocrRunRef # NullRunState THEN ocrRunRef ELSE ocrResumeInfo
  /\ UNCHANGED <<health, numPages, viewer, autoOcrDone, stub, rotationMap, selectedPages,
                 continuousRotationEnabled, continuousRotationThreshold, capturedThreshold,
                 ocrLoading, ocrProgress, ocrError, ocrCompleteMessage,
                 ocrRunRef, ocrAbortRef, nextRun, inflight, srv, lib>>

\* handleReset behind the reset button of the header: the run in progress is
\* aborted and the viewer and OCR state go back to their initial values;
\* ocrRunRef is left as it is.
handleReset ==
  /\ NoPendingEffect
  /\ runs' = AbortCurrent(runs)
  /\ autoOcrDone' = FALSE
  /\ numPages' = 0
  /\ viewer' = [status |-> "idle", pdfDoc |-> 0]
  /\ rotationMap' = EmptyRotationMap
  /\ ocrError' = NoError
  /\ ocrLoading' = FALSE
  /\ ocrProgress' = NullProgress
  /\ ocrCompleteMessage' = NoCompleteMessage
  /\ ocrResumeInfo' = NullRunState
  /\ selectedPages' = <<>>
  /\ UNCHANGED <<health, stub, continuousRotationEnabled, continuousRotationThreshold,
                 ocrRunRef, ocrAbortRef, nextRun, inflight, srv, lib>>
  /\ capturedThreshold' = continuousRotationThreshold

\* applySelection through handleThumbPointerDown: a click on a thumbnail adds
\* the page to the selection or removes it, and the selection stays sorted.
handleThumbPointerDown(pageNumber) ==
  /\ DocReady
  /\ NoPendingEffect
  /\ pageNumber \in 1..numPages
  /\ selectedPages' =
       AscendingSeq(IF pageNumber \in SeqToSet(selectedPages)
                      THEN SeqToSet(selectedPages) \ {pageNumber}
                      ELSE SeqToSet(selectedPages) \cup {pageNumber})
  /\ UNCHANGED <<health, numPages, viewer, autoOcrDone, stub, rotationMap,
                 continuousRotationEnabled, continuousRotationThreshold,
                 ocrLoading, ocrProgress, ocrError, ocrCompleteMessage,
                 ocrResumeInfo, ocrRunRef, ocrAbortRef, runs, nextRun,
                 inflight, srv, lib>>
  /\ capturedThreshold' = continuousRotationThreshold

\* selectedPages.forEach((pageNumber) => rotatePage(pageNumber, delta))
RECURSIVE RotateEach(_, _, _)
RotateEach(map, pages, delta) ==
  IF pages = <<>> THEN map
  ELSE RotateEach(rotatePage(map, Head(pages), delta), Tail(pages), delta)

rotateSelectedPages(delta) ==
  /\ DocReady
  /\ selectedPages # <<>>
  /\ rotationMap' = RotateEach(rotationMap, selectedPages, delta)
  /\ UNCHANGED <<health, numPages, viewer, autoOcrDone, stub, selectedPages,
                 continuousRotationEnabled, continuousRotationThreshold,
                 ocrLoading, ocrProgress, ocrError, ocrCompleteMessage,
                 ocrResumeInfo, ocrRunRef, ocrAbortRef, runs, nextRun,
                 inflight, srv, lib>>
  /\ capturedThreshold' = continuousRotationThreshold

IsHighConfidence(run, resp) ==
  resp.ok /\ resp.rotation # NullRotation
  /\ run.continuousRotation /\ resp.likelihood >= run.threshold

\* The awaited call of run r settles and the run continues to its next
\* await or to its end (lines 1119-1194).
Settle(r) ==
  \E req \in inflight :
    /\ req.run = r
    /\ runs[r].pc = "await"
    /\ LET run == runs[r]
           resp == FetchOutcome(run.aborted, req)
           rest == inflight \ {req}
       IN IF req.scale # OCR_RETRY_SCALE /\ ShouldRetry(req.scale, resp)
            THEN \* catch of the first attempt: one retry at the reduced scale
                 /\ runs' = [runs EXCEPT ![r].requested =
                               Append(@, Request(r, run, req.index, OCR_RETRY_SCALE))]
                 /\ inflight' = rest \cup IssueRequests(r, run, req.index, OCR_RETRY_SCALE)
                 /\ UNCHANGED <<rotationMap, ocrLoading, ocrProgress, ocrError,
                                ocrCompleteMessage, ocrResumeInfo, ocrRunRef>>
            ELSE LET ls == ProcessPage(
                             LoopState(run.workingRotationMap, rotationMap,
                                       run.lastHigh, run.highConfidenceRotations,
                                       run.errors),
                             SeqToSet(run.targetPages), run.continuousRotation,
                             run.threshold, req.page, resp)
                     run1 == [run EXCEPT
                                !.workingRotationMap = ls.working,
                                !.lastHigh = ls.lastHigh,
                                !.highConfidenceRotations = ls.highConfidenceRotations,
                                !.errors = ls.errors]
                     g1 == [Globals EXCEPT !.rotationMap = ls.live]
                     g2 == IF IsHighConfidence(run, resp) /\ g1.ocrRunRef # NullRunState
                             THEN [g1 EXCEPT !.ocrRunRef.lastHigh = ls.lastHigh,
                                             !.ocrRunRef.hcRef = r]
                             ELSE g1
                 IN Install(EnterIteration(r, g2, run1, req.index + 1), r, runs, rest)
    /\ UNCHANGED <<health, numPages, viewer, autoOcrDone, stub, selectedPages,
                   continuousRotationEnabled, continuousRotationThreshold,
                   ocrAbortRef, nextRun, srv, lib>>
    /\ capturedThreshold' = IF rotationMap' # rotationMap
                             THEN continuousRotationThreshold
                             ELSE capturedThreshold

\* ------------------------------------------------------------------------
\* Specification of the orchestrator
\* ------------------------------------------------------------------------
\* Selections the user can have made, in the ascending order applySelection
\* keeps: none, the first page, and all pages but one.
Selections(n) ==
  {<<>>, <<1>>}
  \cup { [i \in 1..(n - 1) |-> IF i < j THEN i ELSE i + 1] : j \in 1..n }

\* The endpoint answers for the pages of the document; page numbers the
\* document does not have are never requested.
Stubs(n, outcomes) ==
  { f \in [Pages -> outcomes \cup {[base |-> ErrResp(503), retry |-> ErrResp(504)]}] :
      \A p \in Pages : p > n => f[p] = [base |-> ErrResp(503), retry |-> ErrResp(504)] }

\* ------------------------------------------------------------------------
\* OrientationEndpoint (server): POST /api/ocr/orientation
\* ------------------------------------------------------------------------
ALLOWED_MIME_TYPES == {"image/png", "image/jpeg", "image/jpg"}

\* new RequestError(status, code, message, options?): retryable is
\* options?.retryable ?? false.  The options argument is {} when it is not
\* passed and {b} for { retryable: b }.
NoOptions == {}
RetryableOption(b) == {b}
RequestError(status, code, options) ==
  [name |-> "RequestError", status |-> status, code |-> code,
   retryable |-> IF options = NoOptions THEN FALSE
                 ELSE CHOOSE b \in options : TRUE]
MulterError(code) ==
  [name |-> "MulterError", status |-> 0, code |-> code, retryable |-> FALSE]
\* Any other thrown value (a rejection of the detector).
PlainError == [name |-> "Error", status |-> 0, code |-> "", retryable |-> FALSE]

\* The uploaded part of a multipart request; NoFile when there is none.
NoFile == [fieldname |-> "", mimetype |-> "", size |-> -1]
Files ==
  [fieldname : {"file", "image"},
   mimetype : ALLOWED_MIME_TYPES \cup {"image/gif", "application/pdf"},
   size : {0, 1, MAX_FILE_SIZE, MAX_FILE_SIZE + 1}]

\* A string is its literal characters followed by `groups` repetitions of
\* "AAAA" (three zero bytes each), so that strings decoding to more than
\* MAX_FILE_SIZE bytes are among the inputs.
LF == "\n"
Texts == UNION { [1..n -> {"A", "=", ",", "!", LF}] : n \in 0..MaxLen }
GroupsAtCeiling == MAX_FILE_SIZE \div 3
Str(text, groups) == [kind |-> "string", text |-> text, groups |-> groups]
AbsentField == [kind |-> "undefined", text |-> <<>>, groups |-> 0]
\* imageBase64 is absent, a number, or a string.
Requests ==
  [file : {NoFile} \cup Files,
   imageBase64 : {AbsentField, [kind |-> "number", text |-> <<>>, groups |-> 0]}
                 \cup { Str(t, g) : t \in Texts,
                                    g \in {0, GroupsAtCeiling, GroupsAtCeiling + 1} }]

IsEmptyString(v) == v.text = <<>> /\ v.groups = 0
IsSpace(c) == c = LF

RECURSIVE DropLeadingSpace(_)
DropLeadingSpace(t) ==
  IF t = <<>> \/ ~IsSpace(Head(t)) THEN t ELSE DropLeadingSpace(Tail(t))

RECURSIVE DropTrailingSpace(_)
DropTrailingSpace(t) ==
  IF t = <<>> \/ ~IsSpace(t[Len(t)]) THEN t
  ELSE DropTrailingSpace(SubSeq(t, 1, Len(t) - 1))

\* String.prototype.trim
trim(v) ==
  IF v.groups > 0 THEN Str(DropLeadingSpace(v.text), v.groups)
  ELSE Str(DropTrailingSpace(DropLeadingSpace(v.text)), 0)

includes(v, c) == \E i \in 1..Len(v.text) : v.text[i] = c

\* value.split(",").pop()
AfterLastComma(v) ==
  LET last == CHOOSE i \in 1..Len(v.text) :
                /\ v.text[i] = ","
                /\ \A j \in (i + 1)..Len(v.text) : v.text[j] # ","
  IN Str(SubSeq(v.text, last + 1, Len(v.text)), v.groups)

\* /^[A-Za-z0-9+/=\r\n]+$/
Base64Class == {"A", "=", LF}
isBase64(value) ==
  LET trimmed == trim(value) IN
  /\ ~IsEmptyString(trimmed)
  /\ \A i \in 1..Len(trimmed.text) : trimmed.text[i] \in Base64Class

\* Buffer.from(content, "base64").length: every four data characters give
\* three bytes, line breaks are skipped.  Data after a padding character is
\* either dropped or decoded, depending on the decoder, so both lengths are
\* possible.
RECURSIVE DataCharsBeforePad(_)
DataCharsBeforePad(t) ==
  IF t = <<>> \/ Head(t) = "=" THEN 0
  ELSE (IF Head(t) = "A" THEN 1 ELSE 0) + DataCharsBeforePad(Tail(t))

DataChars(t) == Cardinality({ i \in 1..Len(t) : t[i] = "A" })

DecodedBytes(chars) == (chars * 6) \div 8

BufferFromBase64Lengths(content) ==
  { DecodedBytes(DataCharsBeforePad(content.text)
                 + (IF includes(content, "=") THEN 0 ELSE 4 * content.groups)),
    DecodedBytes(DataChars(content.text) + 4 * content.groups) }

Thrown(error) == [ok |-> FALSE, error |-> error, length |-> 0, mimeType |-> ""]
Payload(length, mimeType) ==
  [ok |-> TRUE, error |-> PlainError, length |-> length, mimeType |-> mimeType]

\* The buffer check without the test for an empty buffer.
ensureUsableBufferNonEmptyAssumed(length, mimeType) ==
  IF length > MAX_FILE_SIZE
    THEN Thrown(RequestError(413, "file_too_large", RetryableOption(TRUE)))
  ELSE Payload(length, mimeType)

ensureUsableBuffer(length, mimeType) ==
  IF length = 0
    THEN Thrown(RequestError(400, "empty_image", RetryableOption(TRUE)))
  ELSE IF length > MAX_FILE_SIZE
    THEN Thrown(RequestError(413, "file_too_large", RetryableOption(TRUE)))
  ELSE Payload(length, mimeType)

\* The results extractBase64 can give: one per possible decoded length.
extractBase64(raw) ==
  LET trimmed == trim(raw)
      content == IF includes(trimmed, ",") THEN AfterLastComma(trimmed) ELSE trimmed
  IN IF IsEmptyString(content) \/ ~isBase64(content)
       THEN { Thrown(RequestError(400, "invalid_image", RetryableOption(TRUE))) }
       ELSE { ensureUsableBuffer(n, "image/png") :
                n \in BufferFromBase64Lengths(content) }

\* reqFile is req.file as the upload middleware left it.
extractImagePayload(reqFile, body) ==
  IF reqFile # NoFile
    THEN IF reqFile.mimetype \notin ALLOWED_MIME_TYPES
           THEN { Thrown(RequestError(400, "unsupported_mime", NoOptions)) }
           ELSE { ensureUsableBuffer(reqFile.size, reqFile.mimetype) }
  ELSE IF body.kind = "string" /\ ~IsEmptyString(body)
    THEN extractBase64(body)
  ELSE { Thrown(RequestError(400, "image_required", NoOptions)) }

\* The rejection of the timer in promiseWithTimeout.
TimeoutError == RequestError(504, "ocr_timeout", NoOptions)

NoCode == "(none)"
ErrorBody(status, code, retryable) ==
  [success |-> FALSE, status |-> status, code |-> code, retryable |-> retryable]

errorHandler(err) ==
  IF err.name = "RequestError"
    THEN ErrorBody(err.status, err.code, err.retryable)
  ELSE IF err.name = "MulterError"
    THEN IF err.code = "LIMIT_FILE_SIZE"
           THEN ErrorBody(413, err.code, TRUE)
           ELSE ErrorBody(400, err.code, TRUE)
  ELSE ErrorBody(500, NoCode, FALSE)

\* What the detector can resolve with: a rotation or null, and a confidence.
DetectorResults ==
  [rotation : Rotations \cup {NullRotation}, confidence : {0, 50, 59, 60, 95}]

\* The value of `result` before the detector has resolved.
NoResult == [rotation |-> NullRotation, confidence |-> -1]

\* The gate comparing with > instead of >=.
SuccessBodyStrictGate(result) ==
  LET likelihood == result.confidence IN
  [success |-> TRUE, status |-> 200,
   rotation |-> IF likelihood > MIN_LIKELIHOOD THEN result.rotation ELSE NullRotation,
   confidence |-> result.confidence, likelihood |-> likelihood]

\* res.json of the handler: the minimum-likelihood gate on the rotation.
SuccessBody(result) ==
  LET likelihood == result.confidence IN
  [success |-> TRUE, status |-> 200,
   rotation |-> IF likelihood >= MIN_LIKELIHOOD THEN result.rotation ELSE NullRotation,
   confidence |-> result.confidence, likelihood |-> likelihood]

\* ------------------------------------------------------------------------
\* OrientationDetector (server/src/services/orientation): page-number sweep
\* ------------------------------------------------------------------------
Candidates == <<0, 90, 180, 270>>

\* A word of a recognition result: its text as characters, its confidence
\* (NullConfidence when it is not a finite number) and the lower edge y1 of
\* its bounding box (NoBox when the box is not usable).
NullConfidence == -1
NoBox == -1
NoSize == 0
ImageHeight == 800
Word(text, confidence, y1) == [text |-> text, confidence |-> confidence, y1 |-> y1]
Words ==
  { Word(<<"1">>, 920, 700), Word(<<"1">>, 60000, 700),
    Word(<<"1">>, 590, 700), Word(<<"1">>, 920, 699),
    Word(<<"a">>, 920, 700), Word(<<"a", "-", "1", "2">>, 920, 700),
    Word(<<"1">>, NullConfidence, 700), Word(<<"1">>, 920, NoBox) }

\* What rotating and recognising one candidate gives: a failure of either
\* call, or the words with the image height (NoSize when neither the result
\* nor the image metadata gives one).
RecognizeFailed == [failed |-> TRUE, words |-> <<>>, height |-> NoSize]
RecognizeOutcomes ==
  {RecognizeFailed}
  \cup { [failed |-> FALSE, words |-> ws, height |-> h] :
            ws \in UNION { [1..n -> Words] : n \in 0..MaxWords },
            h \in {NoSize, ImageHeight} }

\* text.split(/[^A-Za-z0-9]+/).filter(Boolean); the alphanumeric characters
\* of the texts in Words are "1", "2" and "a"
RECURSIVE SplitTokens(_, _)
SplitTokens(text, current) ==
  IF text = <<>> THEN (IF current = <<>> THEN <<>> ELSE <<current>>)
  ELSE IF Head(text) \in {"1", "2", "a"} THEN SplitTokens(Tail(text), Append(current, Head(text)))
  ELSE (IF current = <<>> THEN <<>> ELSE <<current>>) \o SplitTokens(Tail(text), <<>>)

splitAlnumTokens(text) == SplitTokens(text, <<>>)

hasDigit(token) == \E i \in 1..Len(token) : token[i] \in {"1", "2"}

isWithinBottomStrip(y1, height) ==
  y1 * BOTTOM_STRIP_PARTS >= height * (BOTTOM_STRIP_PARTS - 1)

\* Math.max(0, Math.min(1, ...)) of the value, or of the value / 100
normalizeWordConfidence(confidence) ==
  LET v == IF confidence <= Milli THEN confidence ELSE confidence \div 100
  IN IF v < 0 THEN 0 ELSE IF v > Milli THEN Milli ELSE v

\* A threshold test that wants more than MIN_WORD_CONFIDENCE.
isConfidenceStrictlyAboveThreshold(confidence) ==
  /\ confidence # NullConfidence
  /\ (IF confidence <= Milli THEN confidence * 100 ELSE confidence)
       > MIN_WORD_CONFIDENCE * Milli

isConfidenceAboveThreshold(confidence) ==
  /\ confidence # NullConfidence
  /\ (IF confidence <= Milli THEN confidence * 100 ELSE confidence)
       >= MIN_WORD_CONFIDENCE * Milli

Score(accuracy, bestToken) == [accuracy |-> accuracy, bestToken |-> bestToken]

\* The inner loop over the tokens of one word.
RECURSIVE ScoreTokens(_, _, _)
ScoreTokens(tokens, tokenAccuracy, score) ==
  IF tokens = <<>> THEN score
  ELSE LET token == Head(tokens)
           next ==
             IF ~hasDigit(token) THEN score
             ELSE IF tokenAccuracy > score.accuracy THEN Score(tokenAccuracy, token)
             ELSE IF tokenAccuracy = score.accuracy /\ Len(token) > Len(score.bestToken)
               THEN Score(score.accuracy, token)
             ELSE score
       IN ScoreTokens(Tail(tokens), tokenAccuracy, next)

\* The outer loop over the words.
RECURSIVE ScoreWords(_, _, _)
ScoreWords(words, height, score) ==
  IF words = <<>> THEN score
  ELSE LET word == Head(words)
           next ==
             IF ~isConfidenceAboveThreshold(word.confidence) THEN score
             ELSE IF word.y1 = NoBox \/ ~isWithinBottomStrip(word.y1, height) THEN score
             ELSE ScoreTokens(splitAlnumTokens(word.text),
                              normalizeWordConfidence(word.confidence), score)
       IN ScoreWords(Tail(words), height, next)

scoreBottomStripPageNumberTokens(words, height) ==
  IF height = NoSize THEN Score(0, <<>>)
  ELSE ScoreWords(words, height, Score(0, <<>>))

Count(orientation, accuracy, token) ==
  [orientation |-> orientation, accuracy |-> accuracy, token |-> token]

\* A catch that scores a failed candidate like a perfect one.
CandidateCountFailureAsFull(orientation, outcome) ==
  IF outcome.failed THEN Count(orientation, Milli, <<>>)
  ELSE LET score == scoreBottomStripPageNumberTokens(outcome.words, outcome.height)
       IN Count(orientation, score.accuracy, score.bestToken)

\* The entry pushed for a candidate: accuracy 0 when rotate or recognise fails.
CandidateCount(orientation, outcome) ==
  IF outcome.failed THEN Count(orientation, 0, <<>>)
  ELSE LET score == scoreBottomStripPageNumberTokens(outcome.words, outcome.height)
       IN Count(orientation, score.accuracy, score.bestToken)

\* The reducer preferring the larger rotation on ties.
BetterCountLargerOnTies(currentBest, item) ==
  IF item.accuracy > currentBest.accuracy THEN item
  ELSE IF item.accuracy = currentBest.accuracy /\ item.orientation > currentBest.orientation
    THEN item
  ELSE currentBest

\* The reducer of counts.reduce
BetterCount(currentBest, item) ==
  IF item.accuracy > currentBest.accuracy THEN item
  ELSE IF item.accuracy = currentBest.accuracy /\ item.orientation < currentBest.orientation
    THEN item
  ELSE currentBest

RECURSIVE ReduceCounts(_, _)
ReduceCounts(counts, currentBest) ==
  IF counts = <<>> THEN currentBest
  ELSE ReduceCounts(Tail(counts), BetterCount(currentBest, Head(counts)))

OrientationResult(rotation, confidence) == [rotation |-> rotation, confidence |-> confidence]

SweepResult(counts) ==
  LET best == ReduceCounts(counts, counts[1]) IN
  IF best.accuracy <= 0 THEN OrientationResult(NullRotation, 0)
  ELSE OrientationResult(best.orientation, best.accuracy)

\* The sweep of one detect() call: the counts pushed so far, the outcome of
\* the candidate handled last, and the result once the sweep has returned.
\* normalizeRotation of the detector: Math.round(degrees / 90) * 90 wrapped
\* into 0..359; NullRotation stands for null, undefined and NaN.
normalizeDegrees(degrees) ==
  IF degrees = NullRotation THEN NullRotation
  ELSE JsRem(JsRem(((2 * degrees + 90) \div 180) * 90, 360) + 360, 360)

\* What Tesseract.detect gives: a rejection, or orientation_degrees and
\* orientation_confidence (NullConfidence when absent, else in thousandths).
DetectOutcomes ==
  { [failed |-> TRUE, degrees |-> NullRotation, confidence |-> NullConfidence] }
  \cup { [failed |-> FALSE, degrees |-> d, confidence |-> c] :
            d \in {NullRotation, 0, 44, 45, 270, 359, -90},
            c \in {NullConfidence, 0, 500, 1000, 2590} }

\* One detect() call: its signal ("live" when it is absent or not aborted,
\* "aborted"), hasCustomStrategy of the detector (recorded where detect()
\* reads it), the counts pushed so far, the outcome of the candidate handled
\* last, the result of the sweep once it has returned, and the result of
\* detect() once it has returned.  pc: idle, loop (awaiting a candidate),
\* fallback (awaiting Tesseract.detect), done, rejected.  sample tells how
\* the text sample extraction of the fallback ended: "none" (not reached),
\* "skipped" (switched off), "text", "timeout", "failed".
SweepIdle ==
  [pc |-> "idle", signal |-> "live", custom |-> FALSE, sample |-> "none",
   counts |-> <<>>, data |-> RecognizeFailed,
   result |-> OrientationResult(NullRotation, -1),
   detected |-> OrientationResult(NullRotation, -1)]

\* One request through the endpoint.  pc: idle, upload (in the upload
\* middleware), handler (about to enter the OCR handler), await (detector
\* racing the timer), done (answered).
SrvStart(enabled) ==
  [pc |-> "idle", ocrEnabled |-> enabled, req |-> [file |-> NoFile, imageBase64 |-> AbsentField],
   file |-> NoFile, detectCalls |-> 0, detector |-> "idle", timer |-> "unset",
   result |-> NoResult, responses |-> <<>>, sweep |-> SweepIdle]

SrvIdle == SrvStart(TRUE)

Respond(body) ==
  srv' = [srv EXCEPT !.pc = "done", !.responses = Append(@, body)]

Receive ==
  /\ srv.pc = "idle"
  /\ \E req \in Requests : srv' = [srv EXCEPT !.pc = "upload", !.req = req]
  /\ UNCHANGED clientVars

\* multer single("file"): an unexpected field name, then the file filter,
\* then the size limit while the file is read.
uploadMiddleware ==
  /\ srv.pc = "upload"
  /\ LET file == srv.req.file IN
     IF file = NoFile
       THEN srv' = [srv EXCEPT !.pc = "handler"]
     ELSE IF file.fieldname # "file"
       THEN Respond(errorHandler(MulterError("LIMIT_UNEXPECTED_FILE")))
     ELSE IF file.mimetype \notin ALLOWED_MIME_TYPES
       THEN Respond(errorHandler(RequestError(400, "unsupported_mime", NoOptions)))
     ELSE IF file.size > MAX_FILE_SIZE
       THEN Respond(errorHandler(MulterError("LIMIT_FILE_SIZE")))
     ELSE srv' = [srv EXCEPT !.pc = "handler", !.file = file]
  /\ UNCHANGED clientVars

\* The handler up to its await: a throw goes to next(error), otherwise the
\* detector is called and raced against the timer.
ocrHandler ==
  /\ srv.pc = "handler"
  /\ IF ~srv.ocrEnabled
       THEN Respond(errorHandler(RequestError(503, "ocr_disabled", NoOptions)))
       ELSE \E payload \in extractImagePayload(srv.file, srv.req.imageBase64) :
              IF ~payload.ok
                THEN Respond(errorHandler(payload.error))
                ELSE srv' = [srv EXCEPT !.pc = "await",
                                        !.detectCalls = @ + 1,
                                        !.detector = "pending",
                                        !.timer = "armed"]
  /\ UNCHANGED clientVars

\* The detector wins the race: the timer is cleared in the finally block.
DetectorResolves ==
  /\ srv.pc = "await" /\ srv.detector = "pending"
  /\ \E result \in DetectorResults :
       srv' = [srv EXCEPT !.pc = "done", !.detector = "settled", !.timer = "cleared",
                          !.result = result,
                          !.responses = Append(@, SuccessBody(result))]
  /\ UNCHANGED clientVars

DetectorRejects ==
  /\ srv.pc = "await" /\ srv.detector = "pending"
  /\ srv' = [srv EXCEPT !.pc = "done", !.detector = "settled", !.timer = "cleared",
                        !.responses = Append(@, errorHandler(PlainError))]
  /\ UNCHANGED clientVars

\* The timer wins the race; the detector keeps running.
TimerFires ==
  /\ srv.pc = "await" /\ srv.timer = "armed"
  /\ srv' = [srv EXCEPT !.pc = "done", !.timer = "fired",
                        !.responses = Append(@, errorHandler(TimeoutError))]
  /\ UNCHANGED clientVars

\* A handler that still answers when the detector settles after the timeout.
DetectorSettlesLateAndResponds ==
  /\ srv.pc = "done" /\ srv.detector = "pending"
  /\ \E result \in DetectorResults :
       srv' = [srv EXCEPT !.detector = "settled", !.result = result,
                          !.responses = Append(@, SuccessBody(result))]
  /\ UNCHANGED clientVars

\* The detector settling after the timeout: nobody awaits it any more.
DetectorSettlesLate ==
  /\ srv.pc = "done" /\ srv.detector = "pending"
  /\ srv' = [srv EXCEPT !.detector = "settled"]
  /\ UNCHANGED clientVars


Init ==
  /\ health \in {"unknown", "enabled"}
  /\ autoOcrDone = FALSE
  /\ numPages = NumPages
  /\ viewer = [status |-> "ready", pdfDoc |-> 1]
  /\ stub \in Stubs(numPages, StubOutcomes)
  /\ rotationMap = EmptyRotationMap
  /\ selectedPages \in Selections(numPages)
  /\ health = "enabled" => selectedPages = <<>>
  /\ continuousRotationEnabled \in BOOLEAN
  /\ continuousRotationThreshold = CONTINUOUS_ROTATION_DEFAULT
  /\ capturedThreshold = continuousRotationThreshold
  /\ ocrLoading = FALSE
  /\ ocrProgress = NullProgress
  /\ ocrError = NoError
  /\ ocrCompleteMessage = NoCompleteMessage
  /\ ocrResumeInfo = NullRunState
  /\ ocrRunRef = NullRunState
  /\ ocrAbortRef = 0
  /\ runs = [r \in RunIds |-> UnusedRun]
  /\ nextRun = 1
  /\ inflight = {}
  /\ lib = LibIdle
  /\ srv = SrvIdle

Next ==
  \/ AutoOcrEffect
  \/ DetectClick
  \/ handleResumeOcr
  \/ handleAbortOcr
  \/ \E r \in RunIds : Settle(r)

Spec == Init /\ [][Next]_vars

\* detect() is called: the sweep checks the signal and starts with its
\* first candidate.
SweepBegin ==
  /\ srv.sweep.pc = "idle"
  /\ \E signal \in {"live", "aborted"} :
       srv' = [srv EXCEPT !.sweep.signal = signal,
                          !.sweep.pc = IF signal = "aborted" THEN "rejected" ELSE "loop"]
  /\ UNCHANGED clientVars

\* The caller aborts the signal while detect() is suspended.
SignalAborts ==
  /\ srv.sweep.pc \in {"loop", "fallback"}
  /\ srv.sweep.signal = "live"
  /\ srv' = [srv EXCEPT !.sweep.signal = "aborted"]
  /\ UNCHANGED clientVars

\* Rotation and recognition of the current candidate settle: its count is
\* pushed; before the next candidate the signal is checked; after the last
\* candidate the best count decides the result of the sweep, and detect()
\* returns it or goes on to detectWithTesseract.
SweepCandidate ==
  /\ srv.sweep.pc = "loop"
  /\ \E outcome \in RecognizeOutcomes,
        hasCustomStrategy \in IF Len(srv.sweep.counts) + 1 = Len(Candidates)
                                THEN BOOLEAN ELSE {FALSE} :
       LET orientation == Candidates[Len(srv.sweep.counts) + 1]
           counts == Append(srv.sweep.counts, CandidateCount(orientation, outcome))
           last == Len(counts) = Len(Candidates)
           result == SweepResult(counts)
           returns == \/ result.rotation # NullRotation
                      \/ hasCustomStrategy
                      \/ srv.sweep.signal = "aborted"
       IN srv' = [srv EXCEPT
                    !.sweep.counts = counts,
                    !.sweep.data = outcome,
                    !.sweep.custom = last /\ result.rotation = NullRotation
                                     /\ hasCustomStrategy,
                    !.sweep.pc = IF last THEN (IF returns THEN "done" ELSE "fallback")
                                 ELSE IF srv.sweep.signal = "aborted" THEN "rejected"
                                 ELSE "loop",
                    !.sweep.result = IF last THEN result ELSE @,
                    !.sweep.detected = IF last /\ returns THEN result ELSE @]
  /\ UNCHANGED clientVars

\* Tesseract.detect settles inside detectWithTesseract: detect() returns the
\* normalized degrees with orientation_confidence ?? 0, or the result of
\* the sweep when the call failed.
\* A fallback whose text sample extraction is not wrapped in try/catch.
detectWithTesseractSampleThrows ==
  /\ srv.sweep.pc = "fallback"
  /\ \E outcome \in DetectOutcomes,
        sample \in {"skipped", "text", "timeout", "failed"} :
       srv' = [srv EXCEPT
                 !.sweep.pc = IF ~outcome.failed /\ sample = "failed"
                                THEN "rejected" ELSE "done",
                 !.sweep.sample = IF outcome.failed THEN @ ELSE sample,
                 !.sweep.detected =
                    IF outcome.failed THEN srv.sweep.result
                    ELSE OrientationResult(
                           normalizeDegrees(outcome.degrees),
                           IF outcome.confidence = NullConfidence THEN 0
                           ELSE outcome.confidence)]
  /\ UNCHANGED clientVars

detectWithTesseract ==
  /\ srv.sweep.pc = "fallback"
  /\ \E outcome \in DetectOutcomes,
        sample \in {"skipped", "text", "timeout", "failed"} :
       srv' = [srv EXCEPT
                 !.sweep.pc = "done",
                 !.sweep.sample = IF outcome.failed THEN @ ELSE sample,
                 !.sweep.detected =
                    IF outcome.failed THEN srv.sweep.result
                    ELSE OrientationResult(
                           normalizeDegrees(outcome.degrees),
                           IF outcome.confidence = NullConfidence THEN 0
                           ELSE outcome.confidence)]
  /\ UNCHANGED clientVars

\* The rotation library on its own, entered with one of LibCalls.
InitLib ==
  /\ health = "unknown"
  /\ autoOcrDone = FALSE
  /\ numPages = 0
  /\ viewer = [status |-> "idle", pdfDoc |-> 0]
  /\ stub \in Stubs(numPages, {})
  /\ rotationMap = EmptyRotationMap
  /\ selectedPages = <<>>
  /\ continuousRotationEnabled = FALSE
  /\ continuousRotationThreshold = CONTINUOUS_ROTATION_DEFAULT
  /\ capturedThreshold = continuousRotationThreshold
  /\ ocrLoading = FALSE
  /\ ocrProgress = NullProgress
  /\ ocrError = NoError
  /\ ocrCompleteMessage = NoCompleteMessage
  /\ ocrResumeInfo = NullRunState
  /\ ocrRunRef = NullRunState
  /\ ocrAbortRef = 0
  /\ runs = [r \in RunIds |-> UnusedRun]
  /\ nextRun = 1
  /\ inflight = {}
  /\ lib \in LibCalls
  /\ srv = SrvIdle

NextLib ==
  \/ Normalize
  \/ NormalizeAgain
  \/ ApplyFirst
  \/ ApplySecond
  \/ ApplyOnce
  \/ ClampPage
  \/ setPage
  \/ nextPage
  \/ prevPage

SpecLib == InitLib /\ [][NextLib]_vars

\* The endpoint on its own: the browser application has no document loaded.
InitEndpoint ==
  /\ health = "unknown"
  /\ autoOcrDone = FALSE
  /\ numPages = 0
  /\ viewer = [status |-> "idle", pdfDoc |-> 0]
  /\ stub \in Stubs(numPages, {})
  /\ rotationMap = EmptyRotationMap
  /\ selectedPages = <<>>
  /\ continuousRotationEnabled = FALSE
  /\ continuousRotationThreshold = CONTINUOUS_ROTATION_DEFAULT
  /\ capturedThreshold = continuousRotationThreshold
  /\ ocrLoading = FALSE
  /\ ocrProgress = NullProgress
  /\ ocrError = NoError
  /\ ocrCompleteMessage = NoCompleteMessage
  /\ ocrResumeInfo = NullRunState
  /\ ocrRunRef = NullRunState
  /\ ocrAbortRef = 0
  /\ runs = [r \in RunIds |-> UnusedRun]
  /\ nextRun = 1
  /\ inflight = {}
  /\ lib = LibIdle
  /\ \E enabled \in BOOLEAN : srv = SrvStart(enabled)

NextEndpoint ==
  \/ Receive
  \/ uploadMiddleware
  \/ ocrHandler
  \/ DetectorResolves
  \/ DetectorRejects
  \/ TimerFires
  \/ DetectorSettlesLate

SpecEndpoint == InitEndpoint /\ [][NextEndpoint]_vars

\* The detector on its own.
NextSweep ==
  \/ SweepBegin
  \/ SignalAborts
  \/ SweepCandidate
  \/ detectWithTesseract

\* The detector of a server that has OCR enabled, before its first call.
InitSweep == InitEndpoint /\ srv.ocrEnabled

SpecSweep == InitSweep /\ [][NextSweep]_vars

\* The same orchestrator on a document of VetoPages pages, continuous
\* rotation switched on, every page answered without a failure and page 1
\* answered with a high-confidence 90.
VetoOutcomes ==
  { [base |-> b, retry |-> ErrResp(504)] :
      b \in { OkResp(NullRotation, 0), OkResp(90, HIGH_LIKELIHOOD),
              OkResp(180, HIGH_LIKELIHOOD) } }

InitVeto ==
  /\ health \in {"unknown", "enabled"}
  /\ autoOcrDone = FALSE
  /\ numPages = VetoPages
  /\ viewer = [status |-> "ready", pdfDoc |-> 1]
  /\ stub \in Stubs(numPages, VetoOutcomes)
  /\ stub[1].base = OkResp(90, HIGH_LIKELIHOOD)
  /\ rotationMap = EmptyRotationMap
  /\ selectedPages = <<>>
  /\ continuousRotationEnabled = TRUE
  /\ continuousRotationThreshold = CONTINUOUS_ROTATION_DEFAULT
  /\ capturedThreshold = continuousRotationThreshold
  /\ ocrLoading = FALSE
  /\ ocrProgress = NullProgress
  /\ ocrError = NoError
  /\ ocrCompleteMessage = NoCompleteMessage
  /\ ocrResumeInfo = NullRunState
  /\ ocrRunRef = NullRunState
  /\ ocrAbortRef = 0
  /\ runs = [r \in RunIds |-> UnusedRun]
  /\ nextRun = 1
  /\ inflight = {}
  /\ lib = LibIdle
  /\ srv = SrvIdle

SpecVeto == InitVeto /\ [][Next]_vars

\* The orchestrator with the reset button, on a document whose pages are
\* answered without a result or with a high-confidence 90.
ResetOutcomes ==
  { [base |-> b, retry |-> ErrResp(504)] :
      b \in { OkResp(NullRotation, 0), OkResp(90, HIGH_LIKELIHOOD) } }

InitReset ==
  /\ health \in {"unknown", "enabled"}
  /\ autoOcrDone = FALSE
  /\ numPages = NumPages
  /\ viewer = [status |-> "ready", pdfDoc |-> 1]
  /\ stub \in Stubs(numPages, ResetOutcomes)
  /\ rotationMap = EmptyRotationMap
  /\ selectedPages = <<>>
  /\ continuousRotationEnabled = FALSE
  /\ continuousRotationThreshold = CONTINUOUS_ROTATION_DEFAULT
  /\ capturedThreshold = continuousRotationThreshold
  /\ ocrLoading = FALSE
  /\ ocrProgress = NullProgress
  /\ ocrError = NoError
  /\ ocrCompleteMessage = NoCompleteMessage
  /\ ocrResumeInfo = NullRunState
  /\ ocrRunRef = NullRunState
  /\ ocrAbortRef = 0
  /\ runs = [r \in RunIds |-> UnusedRun]
  /\ nextRun = 1
  /\ inflight = {}
  /\ lib = LibIdle
  /\ srv = SrvIdle

NextReset ==
  \/ AutoOcrEffect
  \/ DetectClick
  \/ handleResumeOcr
  \/ handleAbortOcr
  \/ handleReset
  \/ \E r \in RunIds : Settle(r)

SpecReset == InitReset /\ [][NextReset]_vars

\* The orchestrator with page selection and the manual rotation controls (the
\* rotate buttons and Ctrl+arrow keys), OCR available and continuous rotation
\* switched on, on a document whose page 1 is answered with a high-confidence
\* 90 and whose other pages are answered without a result, with a
\* high-confidence 90 or with a failure.
InitRotate ==
  /\ health = "enabled"
  /\ autoOcrDone = FALSE
  /\ numPages = NumPages
  /\ viewer = [status |-> "ready", pdfDoc |-> 1]
  /\ stub \in Stubs(numPages, ResetOutcomes)
  /\ stub[1].base = OkResp(90, HIGH_LIKELIHOOD)
  /\ rotationMap = EmptyRotationMap
  /\ selectedPages = <<>>
  /\ continuousRotationEnabled = TRUE
  /\ continuousRotationThreshold = CONTINUOUS_ROTATION_DEFAULT
  /\ capturedThreshold = continuousRotationThreshold
  /\ ocrLoading = FALSE
  /\ ocrProgress = NullProgress
  /\ ocrError = NoError
  /\ ocrCompleteMessage = NoCompleteMessage
  /\ ocrResumeInfo = NullRunState
  /\ ocrRunRef = NullRunState
  /\ ocrAbortRef = 0
  /\ runs = [r \in RunIds |-> UnusedRun]
  /\ nextRun = 1
  /\ inflight = {}
  /\ lib = LibIdle
  /\ srv = SrvIdle

NextRotate ==
  \/ AutoOcrEffect
  \/ DetectClick
  \/ handleResumeOcr
  \/ handleAbortOcr
  \/ \E pageNumber \in {1} : handleThumbPointerDown(pageNumber)
  \/ \E delta \in {90, -90, 180} : rotateSelectedPages(delta)
  \/ \E r \in RunIds : Settle(r)

SpecRotate == InitRotate /\ [][NextRotate]_vars

\* ------------------------------------------------------------------------
\* A session of the application: the health answer arriving after the first
\* document, further documents being loaded, the threshold being changed,
\* with continuous rotation switched on and every page answered at high
\* confidence (page 2 with 180, the others with 90)
\* ------------------------------------------------------------------------
\* The effect calling fetchHealth at mount settles: setHealth(next), with
\* OCR enabled.
fetchHealth ==
  /\ health = "unknown"
  /\ health' = "enabled"
  /\ capturedThreshold' = continuousRotationThreshold
  /\ UNCHANGED <<numPages, viewer, autoOcrDone, rotationMap, selectedPages,
                 continuousRotationEnabled, continuousRotationThreshold,
                 ocrError, ocrCompleteMessage, ocrResumeInfo>>
  /\ UNCHANGED <<stub, ocrLoading, ocrProgress, ocrRunRef, ocrAbortRef, runs,
                 nextRun, inflight, srv, lib>>

\* handleFile up to the await of the loader: the OCR messages and the
\* snapshot are cleared and the viewer goes to "loading", on which the auto
\* OCR effect forgets the document it ran for.  A run in progress is left
\* running.
handleFile ==
  /\ NoPendingEffect
  /\ viewer.status # "loading"
  /\ viewer.pdfDoc < MaxDocs
  /\ ocrError' = NoError
  /\ ocrCompleteMessage' = NoCompleteMessage
  /\ ocrResumeInfo' = NullRunState
  /\ viewer' = [viewer EXCEPT !.status = "loading"]
  /\ autoOcrDone' = FALSE
  /\ UNCHANGED <<health, numPages, rotationMap, selectedPages,
                 continuousRotationEnabled, continuousRotationThreshold,
                 capturedThreshold>>
  /\ UNCHANGED <<stub, ocrLoading, ocrProgress, ocrRunRef, ocrAbortRef, runs,
                 nextRun, inflight, srv, lib>>

\* The loader resolves: loadDocument(doc) replaces the viewer state and
\* handleFile empties the selection.
loadDocument ==
  /\ viewer.status = "loading"
  /\ viewer' = [status |-> "ready", pdfDoc |-> viewer.pdfDoc + 1]
  /\ numPages' = NumPages
  /\ rotationMap' = EmptyRotationMap
  /\ selectedPages' = <<>>
  /\ capturedThreshold' = continuousRotationThreshold
  /\ UNCHANGED <<health, autoOcrDone, continuousRotationEnabled,
                 continuousRotationThreshold, ocrError, ocrCompleteMessage,
                 ocrResumeInfo>>
  /\ UNCHANGED <<stub, ocrLoading, ocrProgress, ocrRunRef, ocrAbortRef, runs,
                 nextRun, inflight, srv, lib>>

\* The number input of the threshold, disabled while a run is loading: the
\* state changes, and no dependency of the memoized handleDetectOrientation
\* does.
setContinuousRotationThreshold ==
  /\ NoPendingEffect
  /\ ~ocrLoading
  /\ \E next \in {CONTINUOUS_ROTATION_DEFAULT, HIGH_LIKELIHOOD + 1} :
       /\ next # continuousRotationThreshold
       /\ continuousRotationThreshold' = next
  /\ UNCHANGED <<health, numPages, viewer, autoOcrDone, rotationMap, selectedPages,
                 continuousRotationEnabled, capturedThreshold, ocrError,
                 ocrCompleteMessage, ocrResumeInfo>>
  /\ UNCHANGED <<stub, ocrLoading, ocrProgress, ocrRunRef, ocrAbortRef, runs,
                 nextRun, inflight, srv, lib>>

InitSession ==
  /\ health = "unknown"
  /\ autoOcrDone = FALSE
  /\ numPages = NumPages
  /\ viewer = [status |-> "ready", pdfDoc |-> 1]
  /\ stub \in Stubs(numPages, StubOutcomes)
  /\ \A p \in 1..numPages :
       stub[p].base = OkResp(IF p = 2 THEN 180 ELSE 90, HIGH_LIKELIHOOD)
  /\ rotationMap = EmptyRotationMap
  /\ selectedPages = <<>>
  /\ continuousRotationEnabled = TRUE
  /\ continuousRotationThreshold = CONTINUOUS_ROTATION_DEFAULT
  /\ capturedThreshold = continuousRotationThreshold
  /\ ocrLoading = FALSE
  /\ ocrProgress = NullProgress
  /\ ocrError = NoError
  /\ ocrCompleteMessage = NoCompleteMessage
  /\ ocrResumeInfo = NullRunState
  /\ ocrRunRef = NullRunState
  /\ ocrAbortRef = 0
  /\ runs = [r \in RunIds |-> UnusedRun]
  /\ nextRun = 1
  /\ inflight = {}
  /\ lib = LibIdle
  /\ srv = SrvIdle

NextSession ==
  \/ fetchHealth
  \/ handleFile
  \/ loadDocument
  \/ setContinuousRotationThreshold
  \/ AutoOcrEffect
  \/ DetectClick
  \/ handleResumeOcr
  \/ handleAbortOcr
  \/ \E r \in RunIds : Settle(r)

SpecSession == InitSession /\ [][NextSession]_vars

\* ------------------------------------------------------------------------
\* Shared vocabulary of the orchestrator claims
\* ------------------------------------------------------------------------
Used(r) == runs[r].pc # "unused"
Ended(r) == runs[r].pc = "done"
IsResumed(r) == Used(r) /\ runs[r].origin # 0
\* the cancel was requested while the page at index abortedAt was in flight
CancelledInFlight(r) == Used(r) /\ runs[r].abortedAt >= 0
LatestRun(r) == nextRun = r + 1

TargetSet(r) == SeqToSet(runs[r].targetPages)
PagesFrom(r, k) == { runs[r].targetPages[i + 1] : i \in k..(Len(runs[r].targetPages) - 1) }
RequestedPages(r) == { runs[r].requested[i].page : i \in 1..Len(runs[r].requested) }
BaseRequestsFor(r, page) ==
  { i \in 1..Len(runs[r].requested) :
      runs[r].requested[i].page = page /\ runs[r].requested[i].scale # OCR_RETRY_SCALE }

\* The live map a run over the same targets, from the same starting map and
\* settings, ends with when it is never cancelled.
ReferenceMap(r) ==
  UninterruptedRun(
    LoopState(runs[r].startMap, runs[r].startMap, NoAnchor, EmptyHighConfidence, <<>>),
    runs[r].targetPages, 0, runs[r].continuousRotation, runs[r].threshold,
    runs[r].forceAll).live

\* ------------------------------------------------------------------------
\* C1  Cancel/resume equivalence: after a cancel requested while the page at
\* index k was in flight, the resumed run requests exactly the pages at
\* indices k..end, each at the base scale once, and when it completes every
\* page has the rotation an uninterrupted run over the same targets gives.
\* ------------------------------------------------------------------------
C1_ResumeEqualsUninterrupted ==
  \A r \in RunIds :
    (IsResumed(r) /\ Ended(r) /\ ~runs[r].aborted
       /\ CancelledInFlight(runs[r].origin))
    => LET k == runs[runs[r].origin].abortedAt IN
       /\ RequestedPages(r) = PagesFrom(r, k)
       /\ \A pg \in PagesFrom(r, k) : Cardinality(BaseRequestsFor(r, pg)) = 1
       /\ rotationMap = ReferenceMap(r)

\* ------------------------------------------------------------------------
\* C2  A cancel signalled during a multi-page run ends the run in Cancelled
\* with a resumable snapshot, never in Completed or Failed, and reports no
\* error for the aborted in-flight page, wherever the cursor was.
\* ------------------------------------------------------------------------
ErrorReportedFor(r, page) ==
  ocrError.kind = "failures" /\ page \in SeqToSet(runs[r].errors)

C2_CancelEndsCancelled ==
  \A r \in RunIds :
    (CancelledInFlight(r) /\ Ended(r) /\ LatestRun(r))
    => /\ runs[r].outcome = "cancelled"
       /\ ocrResumeInfo # NullRunState
       /\ ~ErrorReportedFor(r, runs[r].targetPages[runs[r].abortedAt + 1])

\* A step in which run r, suspended in its awaited call, records a new
\* high-confidence anchor (line 1161).
RecordsAnchor(r) ==
  /\ runs[r].pc = "await"
  /\ runs'[r].lastHigh # runs[r].lastHigh

Between(a, b) == (a + 1)..(b - 1)

DocPages == 1..numPages

IndexOf(r, page) ==
  CHOOSE i \in 0..(Len(runs[r].targetPages) - 1) : runs[r].targetPages[i + 1] = page

\* page was detected by this call and its detection gave a rotation
DetectedWithRotation(r, page) ==
  /\ page \in TargetSet(r)
  /\ IndexOf(r, page) >= runs[r].startIndex
  /\ IndexOf(r, page) < runs[r].index
  /\ page \notin SeqToSet(runs[r].errors)
  /\ FinalResponse(page, runs[r].forceAll).rotation # NullRotation

\* The rotation the page's own detection left it with: the detected
\* rotation, or the rotation it had when the call began.
OwnRotation(r, page) ==
  IF DetectedWithRotation(r, page)
    THEN FinalResponse(page, runs[r].forceAll).rotation
    ELSE CurrentRotation(runs[r].entryMap, page)

Recorded(r, page) == runs[r].highConfidenceRotations[page] # Undefined

\* p < m < q, p and q recorded high-confidence with one rotation, m
\* recorded high-confidence with another
VetoedInterval(r, p, m, q) ==
  /\ p < m /\ m < q
  /\ Recorded(r, p) /\ Recorded(r, m) /\ Recorded(r, q)
  /\ runs[r].highConfidenceRotations[p] = runs[r].highConfidenceRotations[q]
  /\ runs[r].highConfidenceRotations[m] # runs[r].highConfidenceRotations[p]

\* C4 as stated: in a vetoed interval every page keeps the rotation its own
\* detection gave it.
C4_VetoedIntervalKeepsOwnRotations ==
  \A r \in RunIds :
    (Used(r) /\ LatestRun(r))
    => \A p, m, q \in DocPages :
         VetoedInterval(r, p, m, q)
         => \A x \in Between(p, q) :
              CurrentRotation(rotationMap, x) = OwnRotation(r, x)

\* C4 as amended: a page differs from the rotation its own detection gave
\* it only when it lies strictly between two consecutively recorded
\* high-confidence pages that carry one and the same rotation, which is then
\* the page's rotation; a disagreeing high-confidence page is never filled
\* across.
C4_ForcedOnlyBetweenAgreeingNeighbours ==
  \A r \in RunIds :
    (Used(r) /\ LatestRun(r))
    => \A x \in DocPages :
         CurrentRotation(rotationMap, x) # OwnRotation(r, x)
         => \E a, b \in DocPages :
              /\ a < x /\ x < b
              /\ runs[r].highConfidenceRotations[a] = CurrentRotation(rotationMap, x)
              /\ runs[r].highConfidenceRotations[b] = CurrentRotation(rotationMap, x)
              /\ \A m \in Between(a, b) : ~Recorded(r, m)

\* Reached: a finished run with a vetoed interval p < m < q whose other
\* pages were left with what their own detection gave, not with the
\* rotation of p and q.
C4_Witness ==
  \E r \in RunIds : \E p, m, q \in DocPages :
    /\ Ended(r) /\ LatestRun(r)
    /\ VetoedInterval(r, p, m, q)
    /\ \E x \in Between(p, q) :
         /\ ~Recorded(r, x)
         /\ CurrentRotation(rotationMap, x) # runs[r].highConfidenceRotations[p]
    /\ \A x \in Between(p, q) :
         ~Recorded(r, x) => CurrentRotation(rotationMap, x) = OwnRotation(r, x)

\* ------------------------------------------------------------------------
\* C5  Within one run at most one detection request is outstanding, and
\* requests are issued in target order: the outstanding request is the one
\* issued last, so the request for the next index (and the retry of the
\* current one) is issued only after the earlier ones have settled.
\* ------------------------------------------------------------------------
Outstanding(r) == { q \in inflight : q.run = r }

C5_OneRequestAtATimeInTargetOrder ==
  \A r \in RunIds :
    LET req == runs[r].requested IN
    /\ Cardinality(Outstanding(r)) <= 1
    /\ \A q \in Outstanding(r) : Len(req) > 0 /\ q = req[Len(req)]
    /\ \A i \in 1..(Len(req) - 1) :
         \/ req[i + 1].index = req[i].index + 1
         \/ /\ req[i + 1].index = req[i].index
            /\ req[i].scale # OCR_RETRY_SCALE
            /\ req[i + 1].scale = OCR_RETRY_SCALE

\* Reached: a run that has issued a retry and a request for a later target
\* and has a request outstanding.
C5_Witness ==
  \E r \in RunIds :
    /\ Outstanding(r) # {}
    /\ \E i \in 1..Len(runs[r].requested) :
         /\ runs[r].requested[i].scale = OCR_RETRY_SCALE
         /\ i < Len(runs[r].requested)

\* ------------------------------------------------------------------------
\* C6  No page mutation mid-cancellation: a run whose cancellation signal is
\* set writes no rotation in any step it takes until it has stopped, and a
\* rotation is written only for a page whose detection call was issued by
\* the run (or by the run it resumes) and is no longer outstanding.
\* ------------------------------------------------------------------------
RECURSIVE Chain(_)
Chain(r) == IF r = 0 THEN {} ELSE {r} \cup Chain(runs[r].origin)

C6_NoRotationWrittenMidCancellation ==
  [][ \A r \in RunIds :
        (runs[r].pc = "await" /\ runs'[r] # runs[r])
        => /\ runs[r].aborted => rotationMap' = rotationMap
           /\ \A pg \in Pages :
                rotationMap'[pg] # rotationMap[pg]
                => /\ \E c \in Chain(r) :
                        \E i \in 1..Len(runs'[c].requested) :
                           runs'[c].requested[i].page = pg
                   /\ \A q \in inflight' : q.page # pg
    ]_vars

\* Reached: a run stopped by a cancel whose in-flight page would have been
\* rotated by its detection result.
C6_Witness ==
  \E r \in RunIds :
    /\ CancelledInFlight(r) /\ Ended(r) /\ LatestRun(r)
    /\ LET pg == runs[r].targetPages[runs[r].abortedAt + 1]
           rot == FinalResponse(pg, runs[r].forceAll).rotation
       IN rot # NullRotation /\ rot # CurrentRotation(rotationMap, pg)

\* ------------------------------------------------------------------------
\* C7  A non-retryable systemic error answered for a page (503
\* ocr_disabled) stops the batch: the run ends in Failed and no request is
\* issued for a later target page.
\* ------------------------------------------------------------------------
AnsweredWith503(r, i) ==
  LET q == runs[r].requested[i] IN
  /\ q \notin inflight
  /\ q.scale # OCR_RETRY_SCALE
  /\ stub[q.page].base.status = 503
  /\ runs[r].abortedAt # q.index

C7_SystemicErrorStopsBatch ==
  \A r \in RunIds :
    \A i \in 1..Len(runs[r].requested) :
      AnsweredWith503(r, i)
      => /\ \A j \in 1..Len(runs[r].requested) :
              runs[r].requested[j].index <= runs[r].requested[i].index
         /\ Ended(r) => runs[r].outcome = "failed"

\* ------------------------------------------------------------------------
\* C8  A retryable detection failure never ends the batch: no run ends in
\* Failed, a run that is not cancelled requests every target page from its
\* cursor on whatever failed before, and the failure count reported when a
\* run completes is the number of its target pages whose detection failed.
\* The count is at least the number of pages that failed retryably and at
\* most the number of pages that failed or whose call a cancel aborted.
\* ------------------------------------------------------------------------
\* Target pages of r for which a detection call, made by r or by a run it
\* resumes, was answered with a failure of one of the given statuses (after
\* the retry, if any).  504 is the retryable failure among the answers.
FailedPagesWith(r, statuses) ==
  { pg \in TargetSet(r) :
      /\ ~FinalResponse(pg, runs[r].forceAll).ok
      /\ FinalResponse(pg, runs[r].forceAll).status \in statuses
      /\ \E c \in Chain(r) :
           /\ pg \in RequestedPages(c)
           /\ ~(runs[c].abortedAt >= 0
                /\ pg = runs[c].targetPages[runs[c].abortedAt + 1]) }

RetryableFailedPages(r) == FailedPagesWith(r, {504})
FailedPages(r) == FailedPagesWith(r, {0, 503, 504})

\* Target pages of r whose call was in flight when a cancel aborted it.
AbortedPages(r) ==
  { pg \in TargetSet(r) :
      \E c \in Chain(r) :
        runs[c].abortedAt >= 0 /\ pg = runs[c].targetPages[runs[c].abortedAt + 1] }

ReportedFailureCount == IF ocrError.kind = "failures" THEN ocrError.count ELSE 0

C8_FailuresNeverEndBatch ==
  \A r \in RunIds :
    Used(r)
    => /\ runs[r].outcome # "failed"
       /\ (Ended(r) /\ ~runs[r].aborted)
          => RequestedPages(r) = PagesFrom(r, runs[r].startIndex)
       /\ (Ended(r) /\ runs[r].outcome = "completed" /\ LatestRun(r))
          => /\ ReportedFailureCount >= Cardinality(RetryableFailedPages(r))
             /\ ReportedFailureCount
                  <= Cardinality(FailedPages(r) \cup AbortedPages(r))

\* ------------------------------------------------------------------------
\* C9  When the timer of the deadline fires before the detector has settled
\* the endpoint answers with status 504, code ocr_timeout and
\* retryable = true.
\* ------------------------------------------------------------------------
C9_TimeoutIs504Retryable ==
  srv.timer = "fired"
  => /\ Len(srv.responses) = 1
     /\ srv.responses[1] = ErrorBody(504, "ocr_timeout", TRUE)

\* ------------------------------------------------------------------------
\* C10  The detector is never invoked for a rejected request: with the
\* feature disabled, no image supplied, an empty image, an image above the
\* size ceiling, an unsupported MIME type or base64 content that cannot be
\* decoded, detect() is not called and the answer is an error.
\* ------------------------------------------------------------------------
HasFile == srv.req.file # NoFile
SuppliedBase64 ==
  /\ ~HasFile
  /\ srv.req.imageBase64.kind = "string"
  /\ ~IsEmptyString(srv.req.imageBase64)
\* The characters of the supplied string that are its base64 content: what
\* follows the last comma, without surrounding white space.
SuppliedContent ==
  LET t == trim(srv.req.imageBase64) IN
  trim(IF includes(t, ",") THEN AfterLastComma(t) ELSE t)

FeatureDisabled == ~srv.ocrEnabled
NoImageSupplied == ~HasFile /\ ~SuppliedBase64
ImageEmpty ==
  \/ HasFile /\ srv.req.file.size = 0
  \/ SuppliedBase64 /\ BufferFromBase64Lengths(SuppliedContent) = {0}
ImageAboveCeiling ==
  \/ HasFile /\ srv.req.file.size > MAX_FILE_SIZE
  \/ SuppliedBase64 /\ \A n \in BufferFromBase64Lengths(SuppliedContent) : n > MAX_FILE_SIZE
UnsupportedMime == HasFile /\ srv.req.file.mimetype \notin ALLOWED_MIME_TYPES
UndecodableBase64 ==
  /\ SuppliedBase64
  /\ \/ IsEmptyString(SuppliedContent)
     \/ \E i \in 1..Len(SuppliedContent.text) :
          SuppliedContent.text[i] \notin {"A", "=", LF}

RejectedRequest ==
  /\ srv.pc # "idle"
  /\ \/ FeatureDisabled
     \/ NoImageSupplied
     \/ ImageEmpty
     \/ ImageAboveCeiling
     \/ UnsupportedMime
     \/ UndecodableBase64

C10_DetectorNotInvokedForRejectedRequest ==
  RejectedRequest
  => /\ srv.detectCalls = 0
     /\ srv.detector = "idle"
     /\ srv.pc # "await"
     /\ srv.pc = "done" => (Len(srv.responses) = 1 /\ ~srv.responses[1].success)

\* Reached: with the feature enabled, a request whose base64 content holds a
\* character outside the alphabet has been answered with an error.
C10_Witness ==
  /\ srv.pc = "done" /\ srv.ocrEnabled
  /\ UndecodableBase64 /\ ~IsEmptyString(SuppliedContent)
  /\ Len(srv.responses) = 1 /\ ~srv.responses[1].success

\* ------------------------------------------------------------------------
\* C11  For every detector result (r, c) the successful response reports
\* rotation r when c >= 0.6 and null when c < 0.6, and in both cases
\* confidence and likelihood equal to c.
\* ------------------------------------------------------------------------
Succeeded == Len(srv.responses) = 1 /\ srv.responses[1].success

C12_EveryErrorHasCodeAndRetryable ==
  \A i \in 1..Len(srv.responses) :
    ~srv.responses[i].success
    => /\ srv.responses[i].code # NoCode
       /\ srv.responses[i].retryable \in BOOLEAN

\* ------------------------------------------------------------------------
\* C13  Among the 400 rejections retryable is true for empty_image and
\* false for image_required, invalid_image and unsupported_mime.
\* ------------------------------------------------------------------------
C13_RetryableAmong400 ==
  \A i \in 1..Len(srv.responses) :
    LET body == srv.responses[i] IN
    (~body.success /\ body.status = 400)
    => /\ body.code = "empty_image" => body.retryable
       /\ body.code \in {"image_required", "invalid_image", "unsupported_mime"}
          => ~body.retryable

\* ------------------------------------------------------------------------
\* C14  A resumed run re-enters Running with cursor, target pages,
\* continuous-rotation toggle, threshold, anchor, high-confidence record and
\* accumulated errors equal to those of the cancelled run when it stopped,
\* and the failure count reported when the resumed run completes includes
\* the failures recorded before the cancellation.
\* ------------------------------------------------------------------------
\* The step in which run r starts as the resumption of the cancelled run o.
Resumes(r, o) ==
  /\ runs[r].pc = "unused" /\ runs'[r].pc # "unused"
  /\ o # 0 /\ runs'[r].origin = o
  /\ runs[o].outcome = "cancelled"

\* The failures run o recorded for pages other than the one whose call a
\* cancel aborted.
ErrorsBeforeCancel(o) ==
  LET Kept(page) == ~(runs[o].abortedAt >= 0
                      /\ page = runs[o].targetPages[runs[o].abortedAt + 1])
  IN SelectSeq(runs[o].errors, Kept)

C14_ResumeRestoresRunState ==
  [][ \A r \in RunIds :
        /\ \A o \in RunIds :
             Resumes(r, o)
             => /\ runs'[r].startIndex = runs[o].index
                /\ runs'[r].targetPages = runs[o].targetPages
                /\ runs'[r].forceAll = runs[o].forceAll
                /\ runs'[r].continuousRotation = runs[o].continuousRotation
                /\ runs'[r].threshold = runs[o].threshold
                /\ runs'[r].lastHigh = runs[o].lastHigh
                /\ runs'[r].highConfidenceRotations = runs[o].highConfidenceRotations
                /\ runs'[r].errors = ErrorsBeforeCancel(o)
        /\ (runs[r].pc = "await" /\ runs'[r].pc = "done"
            /\ runs'[r].outcome = "completed" /\ runs[r].origin # 0
            /\ runs[runs[r].origin].outcome = "cancelled")
           => ReportedFailureCount' >= Len(ErrorsBeforeCancel(runs[r].origin))
    ]_vars

\* ------------------------------------------------------------------------
\* C15  The run state is discarded on completion or explicit reset: once the
\* latest run has reached Completed, and once a reset has been performed,
\* no resumable snapshot is available, however the completion or the reset
\* interleaves with the handling of a cancel.
\* ------------------------------------------------------------------------
\* handleReset is the one step that leaves the application without document.
ResetPerformed == numPages = 0

C15_NoSnapshotAfterCompletionOrReset ==
  /\ \A r \in RunIds :
       (LatestRun(r) /\ Ended(r) /\ runs[r].outcome = "completed")
       => ocrResumeInfo = NullRunState
  /\ ResetPerformed => ocrResumeInfo = NullRunState

\* ------------------------------------------------------------------------
\* C16  The page-number sweep returns the candidate rotation with the
\* highest accuracy, the smaller rotation on ties, with confidence equal to
\* that accuracy; it returns {rotation: null, confidence: 0} exactly when no
\* candidate has a qualifying bottom-strip digit token.
\* ------------------------------------------------------------------------
\* A word in the bottom eighth of the image, with confidence of at least
\* 60 percent, whose text holds a digit.
QualifyingWord(word, height) ==
  /\ height # NoSize
  /\ word.confidence # NullConfidence
  /\ \/ word.confidence <= 1000 /\ word.confidence >= 600
     \/ word.confidence > 1000 /\ word.confidence >= 60000
  /\ word.y1 # NoBox
  /\ 8 * word.y1 >= 7 * height
  /\ \E i \in 1..Len(word.text) : word.text[i] \in {"1", "2"}

HasQualifyingToken(outcome) ==
  /\ ~outcome.failed
  /\ \E i \in 1..Len(outcome.words) : QualifyingWord(outcome.words[i], outcome.height)

C17_StoredRotationsInSet ==
  \A p \in Pages : rotationMap[p] # Undefined => rotationMap[p] \in Rotations

\* Reached: a completed run has applied a detected 90 to page 1 and filled
\* the unresolved page 2 up to the anchor on page 3, and manual rotation of
\* the selected page 1 has taken it from 90 to 270.
C17_Witness ==
  /\ \E r \in RunIds : Ended(r) /\ runs[r].outcome = "completed"
  /\ stub[1].base = OkResp(90, HIGH_LIKELIHOOD)
  /\ stub[2].base = OkResp(NullRotation, 0)
  /\ stub[3].base = OkResp(90, HIGH_LIKELIHOOD)
  /\ selectedPages = <<1>>
  /\ rotationMap[1] = 270 /\ rotationMap[2] = 90 /\ rotationMap[3] = 90

\* ------------------------------------------------------------------------
\* C18  While a run is running, and in every snapshot it surfaces, the
\* cursor satisfies 0 <= currentIndex < length(targetPages).
\* ------------------------------------------------------------------------
CursorWithinTargets(state) ==
  0 <= state.currentIndex /\ state.currentIndex < Len(state.targetPages)

MultipleOf90(number) ==
  number.kind = "integer" /\ number.value % 90 = 0

C19_NormalizeTotalAndIdempotent ==
  /\ (lib.op = "normalizeRotation" /\ lib.pc \in {"returned", "done"})
     => IF MultipleOf90(lib.value)
          THEN /\ lib.result \in Rotations
               /\ (lib.value.value - lib.result) % 360 = 0
          ELSE lib.result = InvalidRotation
  /\ (lib.op = "normalizeRotation" /\ lib.pc = "done")
     => lib.again = lib.result

\* Reached: -450 has been normalized to 270 and 270 again to 270.
C19_Witness ==
  /\ lib.op = "normalizeRotation" /\ lib.pc = "done"
  /\ lib.value = Integer(-450)
  /\ lib.result = 270 /\ lib.again = 270

\* ------------------------------------------------------------------------
\* C20  applyRotationChange composes: for every map, page and multiples A
\* and B of 90, applying A and then B gives the map that applying A + B
\* once gives; in particular deltas that add up to a full turn leave the
\* page's rotation where it started.
\* ------------------------------------------------------------------------
C20_ApplyDeltaComposes ==
  (lib.op = "applyRotationChange" /\ lib.pc = "done")
  => /\ lib.second = lib.once
     /\ (lib.deltaA + lib.deltaB) % 360 = 0
        => lib.second[lib.pageNumber] = CurrentRotation(lib.map, lib.pageNumber)

\* Reached: page 2 at 270 has been rotated by 180 and then by -450, and
\* once by -270, and stands at 0 either way.
C20_Witness ==
  /\ lib.op = "applyRotationChange" /\ lib.pc = "done"
  /\ lib.pageNumber = 2 /\ lib.map[2] = 270
  /\ lib.deltaA = 180 /\ lib.deltaB = -450
  /\ lib.second[2] = 0 /\ lib.once[2] = 0

C22_ResultWithinRange ==
  srv.sweep.pc = "done"
  => /\ srv.sweep.detected.rotation \in Rotations \cup {NullRotation}
     /\ srv.sweep.detected.confidence >= 0
     /\ srv.sweep.detected.confidence <= 1000

\* ------------------------------------------------------------------------
\* C23  After any sequence of setPage, nextPage and prevPage on a loaded
\* document the current page is an integer in [1, numPages]: setPage
\* truncates and clamps, nextPage at the last page and prevPage at page 1
\* leave the page unchanged; clampPageNumber fails with the invalid page
\* count error when totalPages is below 1.
\* ------------------------------------------------------------------------
C23_CurrentPageWithinDocument ==
  /\ (lib.op = "viewer" /\ lib.numPages >= 1)
     => /\ lib.currentPage \in 1..lib.numPages
        /\ lib.call = "nextPage"
           => lib.currentPage = IF lib.from = lib.numPages THEN lib.from ELSE lib.from + 1
        /\ lib.call = "prevPage"
           => lib.currentPage = IF lib.from = 1 THEN lib.from ELSE lib.from - 1
        /\ (lib.call = "setPage" /\ lib.page.kind = "integer")
           => lib.currentPage = IF lib.page.value < 1 THEN 1
                                ELSE IF lib.page.value > lib.numPages THEN lib.numPages
                                ELSE lib.page.value
        /\ (lib.call = "setPage" /\ lib.page.kind = "fraction")
           \* the number is value + 1/2: above 0 it truncates to value
           => lib.currentPage = IF lib.page.value < 1 THEN 1
                                ELSE IF lib.page.value > lib.numPages THEN lib.numPages
                                ELSE lib.page.value
  /\ (lib.op = "clampPageNumber" /\ lib.pc = "done"
      /\ lib.totalPages.kind \in {"integer", "fraction"} /\ lib.totalPages.value < 1)
     => lib.result = InvalidPageCount

\* Reached: on a document of three pages setPage(2.5) has gone from page 3
\* to page 2.
C23_Witness ==
  /\ lib.op = "viewer" /\ lib.numPages = 3
  /\ lib.call = "setPage" /\ lib.page = [kind |-> "fraction", value |-> 2]
  /\ lib.from = 3 /\ lib.currentPage = 2

\* ------------------------------------------------------------------------
\* C24  For each target page a run issues at most two detection requests:
\* the second one, at the reduced scale, exactly when the first failed with
\* HTTP 504; when the retry fails as well the page is recorded once in the
\* run's error list and the run goes on to the next page.
\* ------------------------------------------------------------------------
RequestsAt(r, index) ==
  { k \in 1..Len(runs[r].requested) : runs[r].requested[k].index = index }

TimesRecorded(r, page) ==
  Cardinality({ k \in 1..Len(runs[r].errors) : runs[r].errors[k] = page })

\* C24 over the requests of a run, in the order they were made: a request at the
\* reduced scale directly follows the request of the same page at the base
\* scale, and whatever follows it is for the next target, so a page has one
\* request or two.
C24_OneRetryAfterTimeout ==
  \A r \in RunIds :
    Used(r) =>
      LET req == runs[r].requested
          n == Len(req)
      IN \A k \in 1..n :
           LET page == req[k].page
               retry == req[k].scale = OCR_RETRY_SCALE
               settled == k < n \/ req[k] \notin inflight
               cancelledHere == runs[r].abortedAt = req[k].index
           IN /\ req[k].scale \in {BaseScale(runs[r].forceAll), OCR_RETRY_SCALE}
              /\ retry => /\ k > 1
                          /\ req[k - 1].index = req[k].index
                          /\ req[k - 1].scale # OCR_RETRY_SCALE
                          /\ MessageIncludesHttp504(stub[page].base)
              /\ k < n => \/ req[k + 1].index = req[k].index + 1
                          \/ /\ ~retry
                             /\ req[k + 1].index = req[k].index
                             /\ req[k + 1].scale = OCR_RETRY_SCALE
              /\ (~retry /\ settled /\ ~cancelledHere
                  /\ MessageIncludesHttp504(stub[page].base))
                 => k < n /\ req[k + 1].scale = OCR_RETRY_SCALE
              /\ (retry /\ settled /\ ~cancelledHere /\ ~stub[page].retry.ok)
                 => /\ TimesRecorded(r, page) = 1
                    /\ \/ runs[r].index > req[k].index
                       \/ Ended(r) /\ runs[r].outcome = "completed"

\* Reached: the first target failed with HTTP 504 at both scales, is in the
\* error list once, and the run has requested the second target.
C24_Witness ==
  \E r \in RunIds :
    /\ Used(r) /\ runs[r].abortedAt = -1
    /\ Cardinality(RequestsAt(r, 0)) = 2
    /\ Request(r, runs[r], 0, OCR_RETRY_SCALE) \notin inflight
    /\ ~stub[runs[r].targetPages[1]].retry.ok
    /\ TimesRecorded(r, runs[r].targetPages[1]) = 1
    /\ RequestsAt(r, 1) # {}

\* ------------------------------------------------------------------------
\* C25  After a page's result is processed the page's rotation equals the
\* returned absolute rotation when that is non-null, in the live map and in
\* the run's shadow copy, and is unchanged when it is null; apart from the
\* fill no other page changes in that step.
\* ------------------------------------------------------------------------
\* The step takes the answer to req to the end of the loop body (it is not
\* the step that answers a 504 with the retry).
ProcessesResult(r, req) ==
  /\ req \in inflight /\ req.run = r /\ runs[r].pc = "await"
  /\ req \notin inflight'
  /\ Request(r, runs[r], req.index, OCR_RETRY_SCALE) \notin (inflight' \ inflight)

\* other lies strictly between the anchor the run had and the page whose
\* high-confidence result repeats the anchor's rotation
FilledBy(r, resp, page, other) ==
  /\ IsHighConfidence(runs[r], resp)
  /\ runs[r].lastHigh # NoAnchor
  /\ runs[r].lastHigh.rotation = resp.rotation
  /\ other \in Between(runs[r].lastHigh.page, page)

C25_ResultSetsThePageOnly ==
  [][ \A r \in RunIds : \A req \in inflight :
        ProcessesResult(r, req) =>
          LET resp == FetchOutcome(runs[r].aborted, req)
              page == req.page
          IN /\ (resp.ok /\ resp.rotation # NullRotation)
                => /\ CurrentRotation(rotationMap', page) = resp.rotation
                   /\ CurrentRotation(runs'[r].workingRotationMap, page) = resp.rotation
             /\ (resp.ok /\ resp.rotation = NullRotation)
                => /\ rotationMap'[page] = rotationMap[page]
                   /\ runs'[r].workingRotationMap[page] = runs[r].workingRotationMap[page]
             /\ \A other \in Pages \ {page} :
                  (\/ rotationMap'[other] # rotationMap[other]
                   \/ runs'[r].workingRotationMap[other] # runs[r].workingRotationMap[other])
                  => FilledBy(r, resp, page, other)
    ]_vars

\* ------------------------------------------------------------------------
\* C26  The fill never changes a page outside the run's target set, even
\* when the page lies between two anchors that qualify for the fill: no step
\* of a run changes the rotation of a page that is not one of its targets,
\* in the live map or in the shadow copy.
\* ------------------------------------------------------------------------
C26_FillStaysWithinTargets ==
  [][ \A r \in RunIds : \A req \in inflight :
        ProcessesResult(r, req) =>
          \A pg \in Pages \ TargetSet(r) :
            /\ rotationMap'[pg] = rotationMap[pg]
            /\ runs'[r].workingRotationMap[pg] = runs[r].workingRotationMap[pg]
    ]_vars

\* Reached: a run over pages 1 and 3 has recorded both as high-confidence
\* with one rotation, which both carry, and page 2, not a target and with
\* no record of its own, has no rotation.
C26_Witness ==
  \E r \in RunIds :
    /\ Used(r) /\ runs[r].targetPages = <<1, 3>>
    /\ runs[r].lastHigh.page = 3
    /\ runs[r].highConfidenceRotations[1] = runs[r].lastHigh.rotation
    /\ runs[r].highConfidenceRotations[2] = Undefined
    /\ rotationMap[1] = runs[r].lastHigh.rotation
    /\ rotationMap[3] = runs[r].lastHigh.rotation
    /\ rotationMap[2] = Undefined

\* ------------------------------------------------------------------------
\* C27  In a run with continuous rotation on, every result at or above the
\* threshold with a non-null rotation makes its page the anchor, whatever
\* the previous anchor was and whether or not a fill was made or vetoed; a
\* result below the threshold, a result without rotation and a failed call
\* leave the anchor as it was.
\* ------------------------------------------------------------------------
C27_AnchorFollowsHighConfidence ==
  [][ \A r \in RunIds : \A req \in inflight :
        (req.run = r /\ runs[r].pc = "await" /\ req \notin inflight') =>
          LET resp == FetchOutcome(runs[r].aborted, req)
          IN runs'[r].lastHigh =
               IF IsHighConfidence(runs[r], resp)
                 THEN [page |-> req.page, rotation |-> resp.rotation]
                 ELSE runs[r].lastHigh
    ]_vars

\* Reached: the anchor of a run is a page whose rotation differs from the
\* one recorded for the high-confidence page before it, and a later target
\* has been answered below the threshold without moving the anchor.
C27_Witness ==
  \E r \in RunIds : \E p \in Pages :
    /\ Used(r) /\ runs[r].continuousRotation
    /\ runs[r].lastHigh # NoAnchor
    /\ p < runs[r].lastHigh.page
    /\ runs[r].highConfidenceRotations[p] \notin {Undefined, runs[r].lastHigh.rotation}
    /\ \E k \in 1..Len(runs[r].requested) :
         LET q == runs[r].requested[k] IN
         /\ q.page > runs[r].lastHigh.page
         /\ q \notin inflight
         /\ FinalResponse(q.page, runs[r].forceAll).ok
         /\ FinalResponse(q.page, runs[r].forceAll).rotation # NullRotation
         /\ FinalResponse(q.page, runs[r].forceAll).likelihood < runs[r].threshold

\* ------------------------------------------------------------------------
\* C28  Every resumable snapshot is consistent and isolated from the run
\* that produced it: its anchor is absent or recorded in its high-confidence
\* record with the same rotation, no page at or after its cursor is
\* recorded, and no later step of the run that is still unwinding changes
\* what the snapshot holds.
\* ------------------------------------------------------------------------
\* The high-confidence record a snapshot holds: the object it shares with
\* the run that filled it.
RecordOf(snapshot, rs) == rs[snapshot.hcRef].highConfidenceRotations

SnapshotConsistent ==
  ocrResumeInfo # NullRunState =>
    LET record == RecordOf(ocrResumeInfo, runs) IN
    /\ \/ ocrResumeInfo.lastHigh = NoAnchor
       \/ record[ocrResumeInfo.lastHigh.page] = ocrResumeInfo.lastHigh.rotation
    /\ \A i \in ocrResumeInfo.currentIndex..(Len(ocrResumeInfo.targetPages) - 1) :
         record[ocrResumeInfo.targetPages[i + 1]] = Undefined

\* A step taken by a run (its awaited call settles) while a snapshot is
\* published leaves the snapshot and its record as they were.
SnapshotIsolated ==
  \A r \in RunIds : \A req \in inflight :
    (/\ req.run = r /\ runs[r].pc = "await" /\ req \notin inflight'
     /\ ocrResumeInfo # NullRunState)
    => /\ ocrResumeInfo' = ocrResumeInfo
       /\ RecordOf(ocrResumeInfo, runs') = RecordOf(ocrResumeInfo, runs)

C28_SnapshotConsistentAndIsolated ==
  []SnapshotConsistent /\ [][SnapshotIsolated]_vars

\* ------------------------------------------------------------------------
\* C29  An accepted request gets exactly one response, decided by whichever
\* of the detector and the deadline timer settles first: the success body
\* built from the detector's result (the error response when the detector
\* rejected) or the timeout error.  The loser's later settlement adds no
\* response and changes nothing else, the timer is not left armed once the
\* race is decided, and the detector is left running after a timeout.
\* ------------------------------------------------------------------------
Accepted == srv.detectCalls >= 1

RaceDecidedOnce ==
  Accepted =>
    /\ srv.pc \in {"await", "done"}
    /\ srv.pc = "await"
       => srv.responses = <<>> /\ srv.timer = "armed" /\ srv.detector = "pending"
    /\ srv.pc = "done"
       => /\ Len(srv.responses) = 1
          /\ srv.timer \in {"cleared", "fired"}
          /\ srv.timer = "fired"
             => /\ srv.responses[1] = errorHandler(TimeoutError)
                /\ srv.detector \in {"pending", "settled"}
                /\ srv.result = NoResult
          /\ srv.timer = "cleared"
             => /\ srv.detector = "settled"
                /\ srv.responses[1] =
                     IF srv.result \in DetectorResults
                       THEN SuccessBody(srv.result)
                       ELSE errorHandler(PlainError)

\* A step after the response: only the detector's status changes.
LoserChangesNothing ==
  (Accepted /\ srv.pc = "done")
  => /\ srv' = [srv EXCEPT !.detector = srv'.detector]
     /\ UNCHANGED clientVars

C29_OneOutcomePerRequest ==
  []RaceDecidedOnce /\ [][LoserChangesNothing]_vars

\* Reached: the timer fired, the timeout error is the one response, and the
\* detector has settled afterwards.
C29_Witness ==
  /\ Accepted /\ srv.pc = "done" /\ srv.timer = "fired"
  /\ srv.detector = "settled"
  /\ srv.responses = <<errorHandler(TimeoutError)>>

\* ------------------------------------------------------------------------
\* C30  A candidate whose rotation or recognition fails is counted with
\* accuracy 0 and the sweep goes on: unless the signal is aborted, detect()
\* does not reject and the sweep ends with the counts of all four
\* candidates; when no candidate has a positive accuracy, as when all four
\* fail, the result of the sweep is {rotation: null, confidence: 0}.
\* ------------------------------------------------------------------------
SweepEnded == srv.sweep.pc \in {"fallback", "done"}

C30_CandidateFailureScoresZero ==
  LET counts == srv.sweep.counts IN
  /\ (Len(counts) > 0 /\ srv.sweep.data.failed)
     => counts[Len(counts)] = Count(Candidates[Len(counts)], 0, <<>>)
  /\ srv.sweep.pc = "rejected" => srv.sweep.signal = "aborted"
  /\ SweepEnded
     => /\ Len(counts) = Len(Candidates)
        /\ \A i \in 1..Len(counts) : counts[i].orientation = Candidates[i]
        /\ (\A i \in 1..Len(counts) : counts[i].accuracy = 0)
           => srv.sweep.result = OrientationResult(NullRotation, 0)

\* Reached: a detector with custom strategy has returned the result of a
\* sweep whose last candidate failed and whose candidates all have accuracy
\* 0, with the signal never aborted.
C30_Witness ==
  /\ srv.sweep.pc = "done" /\ srv.sweep.signal = "live" /\ srv.sweep.custom
  /\ srv.sweep.data.failed
  /\ \A i \in 1..Len(srv.sweep.counts) : srv.sweep.counts[i].accuracy = 0
  /\ srv.sweep.detected = OrientationResult(NullRotation, 0)

\* ------------------------------------------------------------------------
\* C31  The fallback is invoked only when the sweep returned a null
\* rotation, and a sweep result with a non-null rotation is what detect()
\* returns; a failure or a timeout of the fallback's text sample extraction
\* never makes detect() fail.
\* ------------------------------------------------------------------------
FallbackInvoked == srv.sweep.pc = "fallback" \/ srv.sweep.sample # "none"

AsFraction(confidence) ==
  IF confidence <= Milli THEN confidence ELSE confidence \div 100

Contributes(word, height) ==
  /\ word.y1 # NoBox
  /\ 8 * (height - word.y1) <= height
  /\ word.confidence # NullConfidence
  /\ 10 * AsFraction(word.confidence) >= 6 * Milli
  /\ \E i \in 1..Len(word.text) : word.text[i] \in {"1", "2"}

Contributions(words, height) ==
  { IF AsFraction(words[i].confidence) > Milli THEN Milli
    ELSE AsFraction(words[i].confidence) :
      i \in { k \in 1..Len(words) : Contributes(words[k], height) } }

MaxOf(S) == IF S = {} THEN 0 ELSE CHOOSE x \in S : \A y \in S : y <= x

\* The candidate handled last was recognised: the count pushed for it.
LastCount == srv.sweep.counts[Len(srv.sweep.counts)]

Running(r) == runs[r].pc = "await" /\ ~runs[r].aborted

C33_ShadowAgreesWithLiveMap ==
  \A r \in RunIds :
    Running(r) =>
      \A pg \in Pages :
        CurrentRotation(runs[r].workingRotationMap, pg) = CurrentRotation(rotationMap, pg)

\* ------------------------------------------------------------------------
\* C34: when a new run starts while an earlier run is still unwinding from
\* its abort, the earlier run never modifies the new run's state: in the step
\* in which the aborted run moves on, the run-state reference keeps
\* describing the new run (its cursor is not overwritten and it is not
\* cleared), the busy flag stays set, and no resume snapshot built from the
\* new run's state is published.
\* ------------------------------------------------------------------------
Unwinding(r) == runs[r].pc = "await" /\ runs[r].aborted

C34_EarlierRunLeavesNewRunAlone ==
  [][\A r \in RunIds : \A n \in RunIds :
       (/\ r < n
        /\ Unwinding(r)
        /\ Running(n)
        /\ ocrRunRef.owner = n
        /\ runs'[r] # runs[r])
       => /\ ocrRunRef' = ocrRunRef
          /\ ocrLoading'
          /\ (ocrResumeInfo' # ocrResumeInfo => ocrResumeInfo'.owner # n)]_vars

\* ------------------------------------------------------------------------
\* C35: a detection result for a page of one document is never applied to
\* the rotation map of a different document loaded afterwards: a step of a
\* run that was started on another document than the one now in the viewer
\* leaves the live rotation map as it is.
\* ------------------------------------------------------------------------
C35_ResultStaysWithItsDocument ==
  [][\A r \in RunIds :
       (/\ runs[r].pc = "await"
        /\ runs'[r] # runs[r]
        /\ runs[r].pdfDoc # viewer.pdfDoc)
       => rotationMap' = rotationMap]_vars

\* ------------------------------------------------------------------------
\* C36: when the OCR feature is disabled, every request is answered with
\* status 503, code ocr_disabled and retryable = false whatever its payload,
\* a file of an unsupported MIME type or over the size limit included.
\* ------------------------------------------------------------------------
C36_DisabledAnswersEveryRequest ==
  ~srv.ocrEnabled =>
    \A i \in 1..Len(srv.responses) :
      srv.responses[i] = ErrorBody(503, "ocr_disabled", FALSE)

\* ------------------------------------------------------------------------
\* C37: a fresh run uses the continuous-rotation toggle and the threshold
\* configured at the moment the run starts, for every sequence of setting
\* changes before the start.
\* ------------------------------------------------------------------------
C37_FreshRunUsesCurrentSettings ==
  [][\A r \in RunIds :
       (/\ runs[r].pc = "unused"
        /\ runs'[r].pc # "unused"
        /\ runs'[r].origin = 0)
       => /\ runs'[r].continuousRotation = continuousRotationEnabled
          /\ runs'[r].threshold = continuousRotationThreshold]_vars

\* ------------------------------------------------------------------------
\* C38: for each loaded document the automatic all-page detection is started
\* exactly once after the server has reported OCR enabled: never a second
\* time for the same document, whatever changes of the rotation map, of the
\* selection or of the settings and whatever run endings follow, and once
\* the effect has run for the document in the viewer its run exists.
\* ------------------------------------------------------------------------
AutoRuns(doc) ==
  { r \in RunIds : /\ runs[r].pc # "unused"
                   /\ runs[r].forceAll
                   /\ runs[r].origin = 0
                   /\ runs[r].pdfDoc = doc }

C38_AutoDetectionOncePerDocument ==
  /\ \A doc \in 1..viewer.pdfDoc : Cardinality(AutoRuns(doc)) <= 1
  /\ (health = "enabled" /\ DocReady /\ autoOcrDone)
       => Cardinality(AutoRuns(viewer.pdfDoc)) = 1

\* The second document's automatic run has ended after changing the map, a
\* setting has been changed, and the first document had its own run.
C38_Witness ==
  /\ viewer = [status |-> "ready", pdfDoc |-> 2]
  /\ Cardinality(AutoRuns(1)) = 1
  /\ \E r \in AutoRuns(2) : runs[r].outcome = "completed"
  /\ rotationMap # EmptyRotationMap
  /\ continuousRotationThreshold # CONTINUOUS_ROTATION_DEFAULT
  /\ ~ocrLoading

\* ------------------------------------------------------------------------
\* C39: whenever a page is recorded as the new high-confidence anchor of a
\* run, no page strictly between the previous anchor and it is recorded as
\* high-confidence, so the conflict scan over the interval finds nothing: a
\* disagreeing high-confidence page blocks propagation only by having
\* replaced the anchor.
\* ------------------------------------------------------------------------
C39_NoRecordBetweenAnchors ==
  [][\A r \in RunIds :
       (/\ runs[r].pc = "await"
        /\ runs[r].lastHigh # NoAnchor
        /\ runs'[r].lastHigh # runs[r].lastHigh)
       => \A m \in Between(runs[r].lastHigh.page, runs'[r].lastHigh.page) :
            runs'[r].highConfidenceRotations[m] = Undefined]_vars

====
